---- MODULE Spec2Model ----
(***************************************************************************)
(* Model of rotkehlchen/externalapis/cryptocompare.py: the rate-limited    *)
(* remote query (_api_query), the special-case two-hop synthesizer, the    *)
(* hourly backfill with its file cache (get_historical_data) and the       *)
(* nearest-timestamp resolver (query_historical_price).                    *)
(*                                                                         *)
(* The specifications share the variables:                                 *)
(*   SpecApi          one _api_query invocation after another              *)
(*   SpecSpecial      the query endpoints and _special_case_handling       *)
(*   Spec             get_historical_data and the direct lookup of         *)
(*                    query_historical_price                               *)
(*   SpecAdjust       _adjust_to_cryptocompare_price_incosistencies        *)
(*   SpecResolver     query_historical_price from its call to its return   *)
(*   SpecEntryPoints  a client of the endpoints or of the resolver         *)
(*   SpecConcurrent   greenlets that call get_historical_data              *)
(*   SpecRecursion    query_historical_price as its own price historian    *)
(***************************************************************************)
EXTENDS Integers, Sequences, FiniteSets, TLC

VARIABLES
    \* ---- _api_query (lines 253-314) ----
    api_pc,          \* "idle" | "loop" | "returned" | "raised"
    tries,           \* the local variable tries
    api_requests,    \* number of session.get calls of this invocation
    api_sleeps,      \* the gevent.sleep arguments of this invocation, in order
    api_all_limited, \* every response of this invocation carried RATE_LIMIT_MSG
    api_last,        \* the last response of this invocation
    api_result,      \* what the invocation returned or raised
    \* ---- query endpoints and _special_case_handling (lines 316-500) ----
    sc_pc,           \* "idle" | "special" | "leg1" | "leg2" | "combine" | "direct" | "done"
    sc_method,       \* method_name
    sc_from,         \* from_asset of the top-level call
    sc_to,           \* to_asset of the top-level call
    sc_inter,        \* intermediate_asset
    sc_entered,      \* how often _special_case_handling was entered by this call
    sc_queries,      \* the remote queries issued by this call, <<from, to>> each
    sc_result1,      \* result1
    sc_result2,      \* result2
    sc_out,          \* what the top-level call returned or raised
    \* ---- the cache and get_historical_data (lines 502-649) ----
    now_ts,              \* the clock read by ts_now()
    price_history,       \* self.price_history: cache key -> series, NoSeries when absent
    price_history_file,  \* the keys of self.price_history_file
    files,               \* the content of the file price_history_<key>.json
    h_pc,                \* "idle" | "loop" | "assembled" | "returned" | "raised"
    h_call,              \* the arguments of the running get_historical_data call
    h_now,               \* its local now_ts
    end_date,            \* its cursor end_date
    calculated_history,  \* its calculated_history
    h_pages,             \* remote histohour queries issued by the call
    h_hit,               \* got_cached_value
    h_out,               \* what the call returned or raised
    h_calls,             \* calls made so far
    remote_honest,       \* no histohour answer so far came from a misbehaving remote
    \* ---- query_historical_price, direct lookup (lines 725-758) ----
    q_pc,                \* "idle" | "looked_up"
    q_candidate,         \* index as computed at line 731
    q_index,             \* index when data[index] is read
    q_price,             \* price after the lookup
    q_outcome,           \* "none" | "before_start" | "priced" | "gave_up" | "IndexError"
    \* ---- _adjust_to_cryptocompare_price_incosistencies (lines 815-864) ----
    adj_pc,              \* "idle" | "called" | "returned"
    adj_price,           \* the argument price
    adj_from_usd,        \* from_asset_usd, as the historian answered
    adj_to_usd,          \* to_asset_usd, as the historian answered
    adj_out,             \* the price returned
    \* ---- query_historical_price (lines 687-813) ----
    r_pc,                \* "idle" | "history" | "fallback" | "adjust" | "final" | "returned" | "raised"
    r_call,              \* the arguments of the running call
    r_price,             \* the local variable price
    r_out,               \* what the call returned or raised
    r_tried,             \* the steps of the call taken so far
    r_answers,           \* the histohour answers the call consulted, in order
    r_quotes,            \* the answers of the historian and of the daily endpoint, in order
    r_start,             \* the cache as the call found it
    r_prev,              \* the call before this one, kept while this one repeats it
    r_calls,             \* calls made so far
    \* ---- concurrent callers of get_historical_data (lines 527-649) ----
    greenlets,           \* greenlet -> the frame of its get_historical_data call
    \* ---- query_historical_price with itself as the price historian ----
    stack                \* the frames of the nested query_historical_price calls

apiVars == <<api_pc, tries, api_requests, api_sleeps, api_all_limited, api_last, api_result>>

scVars == <<sc_pc, sc_method, sc_from, sc_to, sc_inter, sc_entered, sc_queries,
           sc_result1, sc_result2, sc_out>>

cacheVars == <<price_history, price_history_file, files>>

histVars == <<now_ts, cacheVars, h_pc, h_call, h_now, end_date, calculated_history,
             h_pages, h_hit, h_out, h_calls, remote_honest>>

queryVars == <<q_pc, q_candidate, q_index, q_price, q_outcome>>

adjVars == <<adj_pc, adj_price, adj_from_usd, adj_to_usd, adj_out>>

resVars == <<r_pc, r_call, r_price, r_out, r_tried, r_answers, r_quotes, r_start, r_prev,
            r_calls>>

greenletVars == <<greenlets>>

recVars == <<stack>>

nestedVars == <<greenletVars, recVars>>

vars == <<apiVars, scVars, histVars, queryVars, adjVars, resVars, nestedVars>>

(***************************************************************************)
(* _api_query                                                              *)
(***************************************************************************)
CRYPTOCOMPARE_QUERY_RETRY_TIMES == 10

\* What session.get can produce: a connection error, a body that is not
\* JSON, or a JSON object with or without 'Message', 'Response' and 'Data'.
Messages == {"rate_limit", "other", "absent"}
ResponseFields == {"Success", "Error", "absent"}
DataFields == {"absent", "data"}

JsonPayloads == [kind : {"json"}, Message : Messages, Response : ResponseFields, Data : DataFields]

NoPayload(k) == [kind |-> k, Message |-> "absent", Response |-> "absent", Data |-> "absent"]

RemoteAnswers == JsonPayloads \cup {NoPayload("connection_error"), NoPayload("not_json")}

NoAnswer == NoPayload("none")

\* json_ret.get('Message', None) == RATE_LIMIT_MSG
IsRateLimited(json_ret) == json_ret.kind = "json" /\ json_ret.Message = "rate_limit"

\* if tries >= 1: back off and retry
CanRetryOff(t) == t >= 0

CanRetry(t) == t >= 1

\* backoff_seconds = 20 / tries, a true division: kept as a fraction
BackoffSecondsFlipped(t) == [num |-> 20 * t, den |-> CRYPTOCOMPARE_QUERY_RETRY_TIMES]

BackoffSeconds(t) == [num |-> 20, den |-> t]

FracLess(a, b) == a.num * b.den < b.num * a.den

FracEq(a, b) == a.num * b.den = b.num * a.den

\* json_ret.get('Response', 'Success') != 'Success'
IsFailure(json_ret) == json_ret.Response \notin {"Success", "absent"}

\* A return of the whole payload, whether or not it has 'Data'.
ReturnValueWholePayload(json_ret) == [what |-> "payload", payload |-> json_ret]

\* return json_ret['Data'] if 'Data' in json_ret else json_ret
ReturnValue(json_ret) ==
    IF json_ret.Data # "absent" THEN [what |-> "Data", payload |-> json_ret]
    ELSE [what |-> "payload", payload |-> json_ret]

NoResult == [what |-> "none", payload |-> NoAnswer]

Raised(exc) == [what |-> exc, payload |-> NoAnswer]

InitApi ==
    /\ api_pc = "idle"
    /\ tries = 0
    /\ api_requests = 0
    /\ api_sleeps = <<>>
    /\ api_all_limited = TRUE
    /\ api_last = NoAnswer
    /\ api_result = NoResult

\* Entry of _api_query up to the loop: tries = CRYPTOCOMPARE_QUERY_RETRY_TIMES
ApiCall ==
    /\ api_pc \in {"idle", "returned", "raised"}
    /\ api_pc' = "loop"
    /\ tries' = CRYPTOCOMPARE_QUERY_RETRY_TIMES
    /\ api_requests' = 0
    /\ api_sleeps' = <<>>
    /\ api_all_limited' = TRUE
    /\ api_last' = NoAnswer
    /\ api_result' = NoResult

ApiFinish(pc, result) ==
    /\ api_pc' = pc
    /\ api_result' = result
    /\ UNCHANGED <<tries, api_sleeps>>

\* One evaluation of `while tries >= 0` and, when it holds, one iteration.
ApiIteration ==
    /\ api_pc = "loop"
    /\ IF tries >= 0
       THEN \E resp \in RemoteAnswers :
              /\ api_requests' = api_requests + 1
              /\ api_last' = resp
              /\ api_all_limited' = (api_all_limited /\ IsRateLimited(resp))
              /\ IF resp.kind = "connection_error" \/ resp.kind = "not_json"
                 THEN ApiFinish("raised", Raised("RemoteError"))
                 ELSE IF IsRateLimited(resp) /\ CanRetry(tries)
                 THEN /\ api_sleeps' = Append(api_sleeps, BackoffSeconds(tries))
                      /\ tries' = tries - 1
                      /\ UNCHANGED <<api_pc, api_result>>
                 ELSE IF IsFailure(resp)
                 THEN ApiFinish("raised", Raised("RemoteError"))
                 ELSE ApiFinish("returned", ReturnValue(resp))
       ELSE /\ ApiFinish("raised", Raised("AssertionError"))
            /\ UNCHANGED <<api_requests, api_last, api_all_limited>>

(***************************************************************************)
(* Query endpoints and _special_case_handling                              *)
(***************************************************************************)
\* A few of the assets of CRYPTOCOMPARE_SPECIAL_CASES_MAPPING (lines 45-132)
\* with their intermediates, assets that are not in it, and one asset whose
\* to_cryptocompare() raises UnsupportedAsset.
CRYPTOCOMPARE_SPECIAL_CASES_MAPPING ==
    [a \in {"TLN", "cDAI", "BLY"} |->
        CASE a = "TLN" -> "WETH"
          [] a = "cDAI" -> "DAI"
          [] a = "BLY" -> "USDT"]

CRYPTOCOMPARE_SPECIAL_CASES == DOMAIN CRYPTOCOMPARE_SPECIAL_CASES_MAPPING

PlainAssets == {"BTC", "USD", "WETH", "DAI", "USDT"}

\* An asset that cryptocompare lists under a symbol other than its identifier.
RenamedAssets == {"RNM"}

UnsupportedAssets == {"NOCC"}

Assets == CRYPTOCOMPARE_SPECIAL_CASES \cup PlainAssets \cup RenamedAssets \cup UnsupportedAssets

\* asset.to_cryptocompare() of an asset that is supported: the symbol the
\* remote knows the asset by.
ToCryptocompare(asset) == IF asset \in RenamedAssets THEN "RNM_CC" ELSE asset

Methods == {"query_endpoint_histohour", "query_endpoint_price", "query_endpoint_pricehistorical"}

\* Prices the remote quotes for one leg.
LegPrices == {0, 2, 3}

\* Number of entries of a histohour answer in this specification.
MaxLegLen == 2

\* A histohour answer with n hourly entries quoted around p; vol marks the
\* leg the volume fields come from.
HistoHourAnswer(n, p, vol) ==
    [TimeFrom |-> 0, TimeTo |-> (n - 1) * 3600, Aggregated |-> vol,
     Data |-> [i \in 1..n |->
                 [time |-> (i - 1) * 3600, high |-> p + 1, low |-> p, open |-> p,
                  close |-> p + 1, volumefrom |-> vol, volumeto |-> vol,
                  conversionType |-> vol, conversionSymbol |-> vol]]]

\* The payload of the price endpoint: the quote under the symbol asked for in
\* tsyms, or the empty object cryptocompare was seen to return (lines 374-375).
EmptyDict == [k \in {} |-> 0]

PriceDict(symbol, p) == [k \in {symbol} |-> p]

\* dict.get(key, default)
DictGet(d, key, default) == IF key \in DOMAIN d THEN d[key] ELSE default

\* What a direct query of `method` for to_asset can return once the request
\* went through.
DirectAnswers(method, to_asset, vol) ==
    CASE method = "query_endpoint_histohour" ->
            {HistoHourAnswer(n, p, vol) : n \in 1..MaxLegLen, p \in LegPrices}
      [] method = "query_endpoint_price" ->
            {PriceDict(ToCryptocompare(to_asset), p) : p \in LegPrices} \cup {EmptyDict}
      [] OTHER -> LegPrices

NoValue == [what |-> "none", value |-> 0]

Value(v) == [what |-> "value", value |-> v]

Failure(exc) == [what |-> exc, value |-> 0]

\* special_asset = from_asset in CRYPTOCOMPARE_SPECIAL_CASES or
\*                 to_asset in CRYPTOCOMPARE_SPECIAL_CASES
IsSpecialAsset(from_asset, to_asset) ==
    from_asset \in CRYPTOCOMPARE_SPECIAL_CASES \/ to_asset \in CRYPTOCOMPARE_SPECIAL_CASES

\* An endpoint that looks at the pair only, whatever handling_special_case is.
EntersSpecialCaseIgnoringFlag(from_asset, to_asset, handling_special_case) ==
    IsSpecialAsset(from_asset, to_asset)

\* if special_asset and not handling_special_case: (lines 404, 441, 479)
EntersSpecialCase(from_asset, to_asset, handling_special_case) ==
    IsSpecialAsset(from_asset, to_asset) /\ ~handling_special_case

\* A translation that fails for the from asset only.
SymbolsUnsupportedFromOnly(from_asset, to_asset) == from_asset \in UnsupportedAssets

\* from_asset.to_cryptocompare(), to_asset.to_cryptocompare() raise UnsupportedAsset
SymbolsUnsupported(from_asset, to_asset) ==
    from_asset \in UnsupportedAssets \/ to_asset \in UnsupportedAssets

\* intermediate_asset = CRYPTOCOMPARE_SPECIAL_CASES_MAPPING[from_asset]:
\* the asset, or "KeyError" when from_asset is no key of the mapping
IntermediateAsset(from_asset, to_asset) ==
    IF from_asset \in DOMAIN CRYPTOCOMPARE_SPECIAL_CASES_MAPPING
    THEN CRYPTOCOMPARE_SPECIAL_CASES_MAPPING[from_asset]
    ELSE "KeyError"

\* str(FVal(a) * FVal(b)) on the decimal strings of the quotes
MultiplyStrNums(a, b) == a * b

\* The data list of the histohour branch: one output entry per entry of
\* result1, read against result2 at the same index.
CombineHistoHour(result1, result2) ==
    [Aggregated |-> result1.Aggregated, TimeFrom |-> result1.TimeFrom, TimeTo |-> result1.TimeTo,
     Data |-> [idx \in 1..Len(result1.Data) |->
                 [time |-> result1.Data[idx].time,
                  high |-> MultiplyStrNums(result1.Data[idx].high, result2.Data[idx].high),
                  low |-> MultiplyStrNums(result1.Data[idx].low, result2.Data[idx].low),
                  open |-> MultiplyStrNums(result1.Data[idx].open, result2.Data[idx].open),
                  close |-> MultiplyStrNums(result1.Data[idx].close, result2.Data[idx].close),
                  volumefrom |-> result1.Data[idx].volumefrom,
                  volumeto |-> result1.Data[idx].volumeto,
                  conversionType |-> result1.Data[idx].conversionType,
                  conversionSymbol |-> result1.Data[idx].conversionSymbol]]]

\* Lines 371-379: the price branch reads both payloads by asset identifier.
CombinePrice(intermediate_asset, to_asset, result1, result2) ==
    PriceDict(to_asset, MultiplyStrNums(DictGet(result1, intermediate_asset, 0),
                                        DictGet(result2, to_asset, 0)))

\* Lines 347-385: the result of _special_case_handling from its two legs.
\* result2[idx] raises IndexError when leg 2 is shorter than leg 1.
CombineLegs(method, intermediate_asset, to_asset, result1, result2) ==
    CASE method = "query_endpoint_histohour" ->
            IF Len(result2.Data) < Len(result1.Data)
            THEN Failure("IndexError")
            ELSE Value(CombineHistoHour(result1, result2))
      [] method = "query_endpoint_price" ->
            Value(CombinePrice(intermediate_asset, to_asset, result1, result2))
      [] OTHER -> Value(MultiplyStrNums(result1, result2))

InitSpecial ==
    /\ sc_pc = "idle"
    /\ sc_method = "none"
    /\ sc_from = "none"
    /\ sc_to = "none"
    /\ sc_inter = "none"
    /\ sc_entered = 0
    /\ sc_queries = <<>>
    /\ sc_result1 = 0
    /\ sc_result2 = 0
    /\ sc_out = NoValue

\* A top-level call of one of the three endpoints, handling_special_case
\* left at False: up to the branch on special_asset.
EndpointCall ==
    /\ sc_pc \in {"idle", "done"}
    /\ \E method \in Methods, from_asset \in Assets, to_asset \in Assets :
          /\ from_asset # to_asset
          /\ sc_method' = method
          /\ sc_from' = from_asset
          /\ sc_to' = to_asset
          /\ sc_pc' = IF EntersSpecialCase(from_asset, to_asset, FALSE)
                       THEN "special" ELSE "direct"
    /\ sc_inter' = "none"
    /\ sc_entered' = 0
    /\ sc_queries' = <<>>
    /\ sc_result1' = 0
    /\ sc_result2' = 0
    /\ sc_out' = NoValue

\* Lines 413-424 (and 447-455, 487-500): the direct query of a pair. The
\* symbol translation fails before any request; the request itself ends with
\* a RemoteError or an answer. Each outcome says whether a request was made.
DirectQuery(method, from_asset, to_asset, vol) ==
    IF SymbolsUnsupported(from_asset, to_asset)
    THEN {[queried |-> FALSE, ok |-> FALSE, out |-> Failure("PriceQueryUnsupportedAsset")]}
    ELSE {[queried |-> TRUE, ok |-> FALSE, out |-> Failure("RemoteError")]}
         \cup {[queried |-> TRUE, ok |-> TRUE, out |-> Value(v)] :
                 v \in DirectAnswers(method, to_asset, vol)}

\* The request of a direct query, as recorded in sc_queries.
Queried(outcome, from_asset, to_asset) ==
    IF outcome.queried THEN Append(sc_queries, <<from_asset, to_asset>>) ELSE sc_queries

FinishTop(ok, out) ==
    /\ sc_pc' = "done"
    /\ sc_out' = out
    /\ UNCHANGED <<sc_method, sc_from, sc_to, sc_inter, sc_entered, sc_result1, sc_result2>>

\* The endpoint on a pair without special asset.
EndpointDirect ==
    /\ sc_pc = "direct"
    /\ \E outcome \in DirectQuery(sc_method, sc_from, sc_to, 1) :
          /\ sc_queries' = Queried(outcome, sc_from, sc_to)
          /\ FinishTop(outcome.ok, outcome.out)

\* _special_case_handling, lines 333-334: the lookup of the intermediate.
SpecialCaseLookup ==
    /\ sc_pc = "special"
    /\ sc_entered' = sc_entered + 1
    /\ sc_inter' = IntermediateAsset(sc_from, sc_to)
    /\ IF IntermediateAsset(sc_from, sc_to) = "KeyError"
       THEN sc_pc' = "done" /\ sc_out' = Failure("KeyError")
       ELSE sc_pc' = "leg1" /\ UNCHANGED sc_out
    /\ UNCHANGED <<sc_method, sc_from, sc_to, sc_queries, sc_result1, sc_result2>>

FinishLeg1(ok, out) ==
    /\ IF ok
       THEN sc_pc' = "leg2" /\ sc_result1' = out.value /\ UNCHANGED sc_out
       ELSE sc_pc' = "done" /\ sc_out' = out /\ UNCHANGED sc_result1
    /\ UNCHANGED <<sc_method, sc_from, sc_to, sc_inter, sc_entered, sc_result2>>

\* A leg whose endpoint enters _special_case_handling again: the same call
\* repeats without end until the interpreter's recursion limit.
LegReenters ==
    /\ sc_entered' = sc_entered + 1
    /\ sc_pc' = "done"
    /\ sc_out' = Failure("RecursionError")
    /\ UNCHANGED <<sc_method, sc_from, sc_to, sc_inter, sc_queries, sc_result1, sc_result2>>

\* Lines 335-340: method(from_asset, intermediate_asset, handling_special_case=True)
SpecialCaseLeg1 ==
    /\ sc_pc = "leg1"
    /\ IF EntersSpecialCase(sc_from, sc_inter, TRUE)
       THEN LegReenters
       ELSE \E outcome \in DirectQuery(sc_method, sc_from, sc_inter, 1) :
              /\ sc_queries' = Queried(outcome, sc_from, sc_inter)
              /\ FinishLeg1(outcome.ok, outcome.out)

FinishLeg2(ok, out) ==
    /\ IF ok
       THEN sc_pc' = "done" /\ sc_result2' = out.value
            /\ sc_out' = CombineLegs(sc_method, sc_inter, sc_to, sc_result1, out.value)
       ELSE sc_pc' = "done" /\ sc_out' = out /\ UNCHANGED sc_result2
    /\ UNCHANGED <<sc_method, sc_from, sc_to, sc_inter, sc_entered, sc_result1>>

\* Lines 341-385: method(intermediate_asset, to_asset, handling_special_case=True)
\* and the combination of the two results.
SpecialCaseLeg2 ==
    /\ sc_pc = "leg2"
    /\ IF EntersSpecialCase(sc_inter, sc_to, TRUE)
       THEN LegReenters
       ELSE \E outcome \in DirectQuery(sc_method, sc_inter, sc_to, 2) :
              /\ sc_queries' = Queried(outcome, sc_inter, sc_to)
              /\ FinishLeg2(outcome.ok, outcome.out)

(***************************************************************************)
(* The cache and get_historical_data                                       *)
(***************************************************************************)
HOUR == 3600

HalfHour == HOUR \div 2

\* cryptocompare_hourquerylimit, the page size of the backfill: 2000 in the
\* source (line 552, and the literal limit=2000 of line 574), 3 here so that
\* a page of limit + 1 hourly entries can be enumerated.
cryptocompare_hourquerylimit == 3

\* The clock at construction is InitialNowHalfHours half hours after time 0
\* and is followed for MaxTicks half hours.
InitialNowHalfHours == 7

MaxTicks == 3

\* get_historical_data calls followed, and histohour queries per call.
MaxCalls == 2

MaxPages == 2

InitialNow == InitialNowHalfHours * HalfHour

MaxNow == InitialNow + MaxTicks * HalfHour

\* The pairs whose history is asked for, none of them a special case;
\* cache_key = from_asset.identifier + '_' + to_asset.identifier
Pairs == {<<"ETH", "EUR">>}

PairCacheKey(from_asset, to_asset) == <<from_asset, to_asset>>

\* The pairs query_historical_price is asked about: one with a fiat other
\* than USD, the override asset against USD in both directions, and one
\* with BTC.
ResolverPairs ==
    {<<"ETH", "EUR">>, <<"COMP", "USD">>, <<"USD", "COMP">>, <<"BTC", "USD">>, <<"USD", "NOCC">>}

CacheKeys == {PairCacheKey(pair[1], pair[2]) : pair \in Pairs \cup ResolverPairs}

\* historical_data_start and timestamp as the callers pass them
HistoricalDataStarts == {0, 3 * HOUR}

Timestamps == {k * HalfHour : k \in 0..(InitialNowHalfHours + MaxTicks)}

\* low and high quoted for the entries of one page
PagePrices == {0, 2}

\* the quote in the answers of a misbehaving remote
FaultPrice == 2

Min(a, b) == IF a <= b THEN a ELSE b

Abs(a) == IF a >= 0 THEN a ELSE 0 - a

FloorHour(t) == (t \div HOUR) * HOUR

\* Python's s[k:]
SliceFrom(s, k) == SubSeq(s, k + 1, Len(s))

NoSeries == [data |-> <<>>, start_time |-> -1, end_time |-> -1]

\* A histohour entry as the remote sends it and as the file keeps it.
RawEntry(t, p) == [time |-> t, low |-> p, high |-> p, close |-> p]

\* _dict_history_to_entries: PriceHistoryEntry(time, low, high) of each dict
DictHistoryToEntries(data) ==
    [i \in 1..Len(data) |-> [time |-> data[i].time, low |-> data[i].low, high |-> data[i].high]]

\* _dict_history_to_data
DictHistoryToData(d) ==
    [data |-> DictHistoryToEntries(d.data), start_time |-> d.start_time, end_time |-> d.end_time]

\* pairwise: s -> (s0, s1), (s2, s3), ... as zip(a, a) of one iterator yields
\* them; given as the 1-based positions of the first element of each pair
Pairwise(n) == {i \in 1..(n - 1) : i % 2 = 1}

\* _check_hourly_data_sanity: TRUE when it returns, FALSE when it raises
CheckHourlyDataSanity(data) ==
    \A i \in Pairwise(Len(data)) : data[i + 1].time - data[i].time = HOUR

\* ---- the remote's histohour answers ----
\* The window the remote serves for toTs: limit + 1 hourly entries ending at
\* the last full hour that is neither after toTs nor after the present.
HonestTimeTo(to_timestamp, now) == FloorHour(Min(to_timestamp, now))

Window(time_to, p) ==
    [i \in 1..(cryptocompare_hourquerylimit + 1) |->
        RawEntry(time_to - (cryptocompare_hourquerylimit + 1 - i) * HOUR, p)]

DropEntry(s, g) == SubSeq(s, 1, g - 1) \o SubSeq(s, g + 1, Len(s))

HistoHourResponse(time_to, data) ==
    [kind |-> "response", TimeFrom |-> time_to - cryptocompare_hourquerylimit * HOUR,
     TimeTo |-> time_to, Data |-> data]

\* Window shifts of a misbehaving remote, in hours: by an hour or two, and
\* back by a whole page.
WindowShifts == {0 - cryptocompare_hourquerylimit, -1, 1, 2}

\* What a well-behaved remote answers: the request fails, or the window.
HonestAnswers(to_timestamp, now) ==
    LET honest == HonestTimeTo(to_timestamp, now) IN
    {[kind |-> "RemoteError", TimeFrom |-> 0, TimeTo |-> 0, Data |-> <<>>]}
    \cup {HistoHourResponse(honest, Window(honest, p)) : p \in PagePrices}

\* The answers to one histohour query: those of a well-behaved remote, the
\* window with one hour missing, and a window shifted by whole hours.
HistoHourAnswers(to_timestamp, now) ==
    LET honest == HonestTimeTo(to_timestamp, now) IN
    HonestAnswers(to_timestamp, now)
    \cup {HistoHourResponse(honest, DropEntry(Window(honest, FaultPrice), g)) :
              g \in 1..(cryptocompare_hourquerylimit + 1)}
    \cup {HistoHourResponse(honest + s * HOUR, Window(honest + s * HOUR, FaultPrice)) :
              s \in WindowShifts}

\* ---- the files ----
\* write_history_data_in_file(data, filepath, start_ts, end_ts): the JSON
\* document {'data': data, 'start_time': start_ts, 'end_time': end_ts}
WriteHistoryDataInFile(data, start_ts, end_ts) ==
    [kind |-> "valid", data |-> data, start_time |-> start_ts, end_time |-> end_ts]

BadFile(k) == [kind |-> k, data |-> <<>>, start_time |-> 0, end_time |-> 0]

\* A file an earlier run left behind: written by get_historical_data(timestamp
\* = 0, historical_data_start = 0) when the clock was at 2 hours.
EarlierRunFile ==
    WriteHistoryDataInFile([i \in 1..3 |-> RawEntry((i - 1) * HOUR, 2)], 0, 2 * HOUR)

\* What the data directory can hold for a pair at construction: nothing, the
\* file of an earlier run, a file that cannot be opened, text that is not
\* JSON, or a JSON object without the 'data' key.
InitialFiles ==
    {BadFile("absent"), EarlierRunFile, BadFile("unreadable"), BadFile("not_json"),
     BadFile("missing_keys")}

\* The data directory at construction; only the pairs of Pairs were priced by
\* an earlier run.
InitialDirectories ==
    {d \in [CacheKeys -> InitialFiles] :
        \A k \in CacheKeys :
            k \notin {PairCacheKey(pair[1], pair[2]) : pair \in Pairs} => d[k] = BadFile("absent")}

\* Lines 506-511: open, rlk_jsonloads_dict and _dict_history_to_data.
\* OSError and JSONDecodeError are caught; the KeyError of a missing key is not.
LoadOutcome(file) ==
    CASE file.kind = "valid" -> "loaded"
      [] file.kind \in {"absent", "unreadable"} -> "OSError"
      [] file.kind = "not_json" -> "JSONDecodeError"
      [] file.kind = "missing_keys" -> "KeyError"

\* Lines 513-516
InRange(series, timestamp) == series.start_time <= timestamp /\ series.end_time > timestamp

\* _got_cached_price keeping a series it loaded only up to the timestamp
\* asked for.
GotCachedPriceTrimming(history, listed, disk, cache_key, timestamp) ==
    IF cache_key \notin listed
    THEN [result |-> "False", history |-> history]
    ELSE IF history[cache_key] = NoSeries /\ LoadOutcome(disk[cache_key]) # "loaded"
    THEN [result |-> IF LoadOutcome(disk[cache_key]) = "KeyError" THEN "KeyError" ELSE "False",
          history |-> history]
    ELSE LET loaded == IF history[cache_key] = NoSeries
                       THEN [history EXCEPT ![cache_key] = DictHistoryToData(disk[cache_key])]
                       ELSE history
         IN [result |-> IF InRange(loaded[cache_key], timestamp) THEN "True" ELSE "False",
             history |-> [loaded EXCEPT ![cache_key].end_time = timestamp + 1]]

\* _got_cached_price(cache_key, timestamp) on a given cache: the value
\* returned or the exception raised, and price_history afterwards.
GotCachedPrice(history, listed, disk, cache_key, timestamp) ==
    IF cache_key \notin listed
    THEN [result |-> "False", history |-> history]
    ELSE IF history[cache_key] = NoSeries /\ LoadOutcome(disk[cache_key]) # "loaded"
    THEN [result |-> IF LoadOutcome(disk[cache_key]) = "KeyError" THEN "KeyError" ELSE "False",
          history |-> history]
    ELSE LET loaded == IF history[cache_key] = NoSeries
                       THEN [history EXCEPT ![cache_key] = DictHistoryToData(disk[cache_key])]
                       ELSE history
         IN [result |-> IF InRange(loaded[cache_key], timestamp) THEN "True" ELSE "False",
             history |-> loaded]

NoCall == [key |-> <<"none", "none">>, timestamp |-> 0, historical_data_start |-> 0]

InitHist ==
    /\ now_ts = InitialNow
    /\ price_history = [k \in CacheKeys |-> NoSeries]
    /\ files \in InitialDirectories
    /\ price_history_file = {k \in CacheKeys : files[k].kind # "absent"}
    /\ h_pc = "idle"
    /\ h_call = NoCall
    /\ h_now = 0
    /\ end_date = 0
    /\ calculated_history = <<>>
    /\ h_pages = 0
    /\ h_hit = FALSE
    /\ h_out = "none"
    /\ h_calls = 0
    /\ remote_honest = TRUE

InitQuery ==
    /\ q_pc = "idle"
    /\ q_candidate = 0
    /\ q_index = 0
    /\ q_price = 0
    /\ q_outcome = "none"

\* Time passes between two calls.
Tick ==
    /\ h_pc = "idle"
    /\ now_ts < MaxNow
    /\ now_ts' = now_ts + HalfHour
    /\ UNCHANGED <<cacheVars, h_pc, h_call, h_now, end_date, calculated_history,
                   h_pages, h_hit, h_out, h_calls, remote_honest>>

\* The call is over: its frame is dropped.
Return ==
    /\ h_pc \in {"returned", "raised"}
    /\ h_pc' = "idle"
    /\ h_call' = NoCall
    /\ h_now' = 0
    /\ end_date' = 0
    /\ calculated_history' = <<>>
    /\ h_pages' = 0
    /\ h_hit' = FALSE
    /\ h_out' = "none"
    /\ UNCHANGED <<now_ts, cacheVars, h_calls, remote_honest>>

\* get_historical_data, lines 546-558: the cache check and, on a miss, the
\* start of the backfill at the earlier of historical_data_start and timestamp.
\* Prices are asked for moments that are not in the future.
GetHistoricalData(from_asset, to_asset, timestamp, historical_data_start) ==
    LET cache_key == PairCacheKey(from_asset, to_asset)
        got == GotCachedPrice(price_history, price_history_file, files, cache_key, timestamp)
    IN /\ h_call' = [key |-> cache_key, timestamp |-> timestamp,
                     historical_data_start |-> historical_data_start]
       /\ price_history' = got.history
       /\ h_hit' = (got.result = "True")
       /\ h_pc' = CASE got.result = "True" -> "returned"
                    [] got.result = "KeyError" -> "raised"
                    [] OTHER -> "loop"
       /\ h_out' = CASE got.result = "True" -> "data"
                     [] got.result = "KeyError" -> "KeyError"
                     [] OTHER -> "none"
       /\ end_date' = IF got.result = "False"
                      THEN Min(historical_data_start, timestamp)
                      ELSE 0
       /\ h_now' = now_ts
       /\ calculated_history' = <<>>
       /\ h_pages' = 0
       /\ h_calls' = h_calls + 1
       /\ UNCHANGED <<now_ts, price_history_file, files, remote_honest>>

GetHistoricalDataCall ==
    /\ h_pc = "idle"
    /\ h_calls < MaxCalls
    /\ \E pair \in Pairs, timestamp \in Timestamps, historical_data_start \in HistoricalDataStarts :
          /\ timestamp <= now_ts
          /\ GetHistoricalData(pair[1], pair[2], timestamp, historical_data_start)

\* PageStep with the first entry of a page kept when the history ends with it.
PageStepKeepingDuplicate(pr_end_date, history, now, resp) ==
    LET requested == pr_end_date + cryptocompare_hourquerylimit * HOUR
        diff == pr_end_date - resp.TimeFrom
        skip == diff \div HOUR
        must_slice == pr_end_date # resp.TimeFrom /\ diff >= HOUR
        data1 == IF must_slice THEN SliceFrom(resp.Data, skip) ELSE resp.Data
        end_dates_dont_match == requested < now /\ resp.TimeTo # requested
        new_end == IF end_dates_dont_match THEN resp.TimeTo ELSE requested
        last_entry_equal_to_first ==
            Len(history) # 0 /\ history[Len(history)].time = data1[1].time
        data2 == data1
        failed(exc) == [status |-> exc, end_date |-> requested, history |-> history]
    IN  IF resp.kind = "RemoteError" THEN failed("RemoteError")
        ELSE IF must_slice /\ skip >= Len(resp.Data) THEN failed("IndexError")
        ELSE IF must_slice /\ resp.Data[skip + 1].time # pr_end_date THEN failed("RemoteError")
        ELSE IF end_dates_dont_match /\ resp.TimeTo - requested >= HOUR THEN failed("RemoteError")
        ELSE IF Len(history) # 0 /\ Len(data1) = 0 THEN failed("IndexError")
        ELSE [status |-> IF new_end >= now THEN "break" ELSE "continue",
              end_date |-> new_end, history |-> history \o data2]

\* Lines 578-621 on one response: how the iteration ends ("continue",
\* "break", or the exception raised), the cursor and the history after it.
PageStep(pr_end_date, history, now, resp) ==
    LET requested == pr_end_date + cryptocompare_hourquerylimit * HOUR
        diff == pr_end_date - resp.TimeFrom
        skip == diff \div HOUR
        must_slice == pr_end_date # resp.TimeFrom /\ diff >= HOUR
        data1 == IF must_slice THEN SliceFrom(resp.Data, skip) ELSE resp.Data
        end_dates_dont_match == requested < now /\ resp.TimeTo # requested
        new_end == IF end_dates_dont_match THEN resp.TimeTo ELSE requested
        last_entry_equal_to_first ==
            Len(history) # 0 /\ history[Len(history)].time = data1[1].time
        data2 == IF last_entry_equal_to_first THEN Tail(data1) ELSE data1
        failed(exc) == [status |-> exc, end_date |-> requested, history |-> history]
    IN  IF resp.kind = "RemoteError" THEN failed("RemoteError")
        ELSE IF must_slice /\ skip >= Len(resp.Data) THEN failed("IndexError")
        ELSE IF must_slice /\ resp.Data[skip + 1].time # pr_end_date THEN failed("RemoteError")
        ELSE IF end_dates_dont_match /\ resp.TimeTo - requested >= HOUR THEN failed("RemoteError")
        ELSE IF Len(history) # 0 /\ Len(data1) = 0 THEN failed("IndexError")
        ELSE [status |-> IF new_end >= now THEN "break" ELSE "continue",
              end_date |-> new_end, history |-> history \o data2]

\* One iteration of the while loop, lines 559-621, on the answer resp to its
\* histohour query.
BackfillPageOn(resp) ==
    LET step == PageStep(end_date, calculated_history, h_now, resp)
    IN /\ end_date' = step.end_date
       /\ calculated_history' = step.history
       /\ h_pc' = CASE step.status = "continue" -> "loop"
                    [] step.status = "break" -> "assembled"
                    [] OTHER -> "raised"
       /\ h_out' = IF step.status \in {"continue", "break"} THEN "none" ELSE step.status
       /\ remote_honest' =
             (remote_honest
              /\ resp \in HonestAnswers(end_date + cryptocompare_hourquerylimit * HOUR, h_now))
       /\ h_pages' = h_pages + 1
       /\ UNCHANGED <<now_ts, cacheVars, h_call, h_now, h_hit, h_calls>>

\* Lines 559-577 with 413-417: the histohour query of a pair whose symbols do
\* not translate raises in the first iteration, before any request.
BackfillUnsupported ==
    /\ h_pc = "loop"
    /\ SymbolsUnsupported(h_call.key[1], h_call.key[2])
    /\ h_pc' = "raised"
    /\ h_out' = "PriceQueryUnsupportedAsset"
    /\ end_date' = end_date + cryptocompare_hourquerylimit * HOUR
    /\ UNCHANGED <<now_ts, cacheVars, h_call, h_now, calculated_history, h_pages, h_hit,
                   h_calls, remote_honest>>

\* One iteration of the while loop, the histohour query included.
BackfillPage ==
    /\ h_pc = "loop"
    /\ ~SymbolsUnsupported(h_call.key[1], h_call.key[2])
    /\ h_pages < MaxPages
    /\ \E resp \in HistoHourAnswers(end_date + cryptocompare_hourquerylimit * HOUR, h_now) :
          BackfillPageOn(resp)

\* BackfillStore with the file written before the sanity check.
BackfillStoreEager ==
    /\ h_pc = "assembled"
    /\ IF CheckHourlyDataSanity(calculated_history)
       THEN /\ files' = [files EXCEPT ![h_call.key] =
                           WriteHistoryDataInFile(calculated_history,
                                                  h_call.historical_data_start, h_now)]
            /\ price_history_file' = price_history_file \cup {h_call.key}
            /\ price_history' = [price_history EXCEPT ![h_call.key] =
                                   DictHistoryToData([data |-> calculated_history,
                                                      start_time |-> h_call.historical_data_start,
                                                      end_time |-> end_date])]
            /\ h_pc' = "returned"
            /\ h_out' = "data"
       ELSE /\ h_pc' = "raised"
            /\ h_out' = "RemoteError"
            /\ files' = [files EXCEPT ![h_call.key] =
                           WriteHistoryDataInFile(calculated_history,
                                                  h_call.historical_data_start, h_now)]
            /\ UNCHANGED <<price_history, price_history_file>>
    /\ UNCHANGED <<now_ts, h_call, h_now, end_date, calculated_history, h_pages, h_hit,
                   h_calls, remote_honest>>

\* Lines 623-649: the sanity check, the file, and the series kept in memory.
BackfillStore ==
    /\ h_pc = "assembled"
    /\ IF CheckHourlyDataSanity(calculated_history)
       THEN /\ files' = [files EXCEPT ![h_call.key] =
                           WriteHistoryDataInFile(calculated_history,
                                                  h_call.historical_data_start, h_now)]
            /\ price_history_file' = price_history_file \cup {h_call.key}
            /\ price_history' = [price_history EXCEPT ![h_call.key] =
                                   DictHistoryToData([data |-> calculated_history,
                                                      start_time |-> h_call.historical_data_start,
                                                      end_time |-> end_date])]
            /\ h_pc' = "returned"
            /\ h_out' = "data"
       ELSE /\ h_pc' = "raised"
            /\ h_out' = "RemoteError"
            /\ UNCHANGED cacheVars
    /\ UNCHANGED <<now_ts, h_call, h_now, end_date, calculated_history, h_pages, h_hit,
                   h_calls, remote_honest>>

(***************************************************************************)
(* query_historical_price: the direct lookup in the hourly series          *)
(***************************************************************************)
\* convert_to_int((timestamp - data[0].time) / 3600, accept_only_exact=False)
CandidateIndex(data, timestamp) == (timestamp - data[1].time) \div HOUR

\* (data[index].high + data[index].low) / 2
MidPrice(entry) == (entry.high + entry.low) \div 2

\* Lines 732-744: the index read afterwards (0-based, as in the source), or
\* -1 when index_in_bounds is set to False.
AdjustedIndex(index, length) ==
    IF index > length - 1
    THEN IF index > length THEN index - 1 ELSE -1
    ELSE index

\* NearestIndex with the neighbour taken on a tie as well.
NearestIndexTieUp(data, index, timestamp) ==
    IF index + 1 <= Len(data) - 1
       /\ Abs(data[index + 2].time - timestamp) <= Abs(data[index + 1].time - timestamp)
    THEN index + 1
    ELSE index

\* Lines 747-751: the neighbour index + 1 when it is strictly closer.
NearestIndex(data, index, timestamp) ==
    IF index + 1 <= Len(data) - 1
       /\ Abs(data[index + 2].time - timestamp) < Abs(data[index + 1].time - timestamp)
    THEN index + 1
    ELSE index

\* Lines 725-758 on the series get_historical_data returned.
DirectLookupResult(data, timestamp) ==
    IF Len(data) = 0
    THEN [outcome |-> "IndexError", candidate |-> 0, index |-> 0, price |-> 0]
    ELSE IF timestamp < data[1].time
    THEN [outcome |-> "before_start", candidate |-> 0, index |-> 0, price |-> 0]
    ELSE LET candidate == CandidateIndex(data, timestamp)
             index == AdjustedIndex(candidate, Len(data))
         IN IF index = -1
            THEN [outcome |-> "gave_up", candidate |-> candidate, index |-> candidate, price |-> 0]
            ELSE IF index > Len(data) - 1
            THEN [outcome |-> "IndexError", candidate |-> candidate, index |-> index, price |-> 0]
            ELSE LET nearest == NearestIndex(data, index, timestamp)
                 IN [outcome |-> "priced", candidate |-> candidate, index |-> nearest,
                     price |-> MidPrice(data[nearest + 1])]

\* query_historical_price after get_historical_data returned its series for
\* the call's pair and timestamp.
DirectLookup ==
    /\ h_pc = "returned"
    /\ q_pc = "idle"
    /\ LET r == DirectLookupResult(price_history[h_call.key].data, h_call.timestamp)
       IN /\ q_candidate' = r.candidate
          /\ q_index' = r.index
          /\ q_price' = r.price
          /\ q_outcome' = r.outcome
    /\ q_pc' = "looked_up"

ResetQuery ==
    /\ q_pc' = "idle"
    /\ q_candidate' = 0
    /\ q_index' = 0
    /\ q_price' = 0
    /\ q_outcome' = "none"

(***************************************************************************)
(* Prices as decimals, and the consistency adjuster                        *)
(***************************************************************************)
\* FVal arithmetic is exact; a price is kept as a fraction num/den, den > 0.
IntFrac(n) == [num |-> n, den |-> 1]

ZeroFrac == IntFrac(0)

FracMul(a, b) == [num |-> a.num * b.num, den |-> a.den * b.den]

\* a / b for b # 0
FracDiv(a, b) == [num |-> a.num * b.den, den |-> a.den * b.num]

\* abs(a - b)
FracAbsDiff(a, b) == [num |-> Abs(a.num * b.den - b.num * a.den), den |-> a.den * b.den]

\* max(a, b)
FracMax(a, b) == IF FracLess(a, b) THEN b ELSE a

FracIsZero(a) == a.num = 0

\* FVal('0.1')
AdjustThreshold == [num |-> 1, den |-> 10]

\* The adjuster with the threshold itself left unadjusted.
AdjustStrictlyAbove(price, from_asset_usd, to_asset_usd) ==
    LET usd_invert_conversion == FracDiv(from_asset_usd, to_asset_usd)
        abs_diff == FracAbsDiff(usd_invert_conversion, price)
        relative_difference == FracDiv(abs_diff, FracMax(price, usd_invert_conversion))
    IN IF FracLess(AdjustThreshold, relative_difference)
       THEN usd_invert_conversion
       ELSE price

\* Lines 850-864, on the two answers of the historian (lines 839-848).
AdjustToCryptocomparePriceIncosistencies(price, from_asset_usd, to_asset_usd) ==
    LET usd_invert_conversion == FracDiv(from_asset_usd, to_asset_usd)
        abs_diff == FracAbsDiff(usd_invert_conversion, price)
        relative_difference == FracDiv(abs_diff, FracMax(price, usd_invert_conversion))
    IN IF ~FracLess(relative_difference, AdjustThreshold)
       THEN usd_invert_conversion
       ELSE price

\* The prices the adjuster is given, and the USD quotes of the two assets
\* (the historian hands out nonzero prices only).
AdjustPrices == {0, 45, 50, 85, 90, 100, 110}

AdjustFromUsd == {85, 90, 92, 100, 110, 111, 112}

AdjustToUsd == {1, 2}

InitAdjust ==
    /\ adj_pc = "idle"
    /\ adj_price = 0
    /\ adj_from_usd = 1
    /\ adj_to_usd = 1
    /\ adj_out = ZeroFrac

\* A call of the adjuster, up to the answers of the historian.
AdjustCall ==
    /\ adj_pc \in {"idle", "returned"}
    /\ adj_pc' = "called"
    /\ adj_price' \in AdjustPrices
    /\ adj_from_usd' \in AdjustFromUsd
    /\ adj_to_usd' \in AdjustToUsd
    /\ adj_out' = ZeroFrac

\* Lines 850-864
AdjustReturn ==
    /\ adj_pc = "called"
    /\ adj_pc' = "returned"
    /\ adj_out' = AdjustToCryptocomparePriceIncosistencies(
                      IntFrac(adj_price), IntFrac(adj_from_usd), IntFrac(adj_to_usd))
    /\ UNCHANGED <<adj_price, adj_from_usd, adj_to_usd>>

(***************************************************************************)
(* query_historical_price                                                  *)
(***************************************************************************)
\* The timestamp of the COMP entry of CRYPTOCOMPARE_SPECIAL_HISTOHOUR_CASES:
\* 1592632800 in the source (line 156), one hour after time 0 here so that
\* the timestamps asked for lie on both sides of it.
SpecialHistoHourTimestamp == 3600

\* Calls of query_historical_price followed.
MaxQueries == 2

CRYPTOCOMPARE_SPECIAL_HISTOHOUR_CASES ==
    [a \in {"COMP"} |->
        [timestamp |-> SpecialHistoHourTimestamp, usd_price |-> [num |-> 20293, den |-> 100]]]

\* The override with the USD price handed out in both directions.
CheckAndGetSpecialHistohourPriceOneWay(from_asset, to_asset, timestamp) ==
    IF \/ from_asset \in DOMAIN CRYPTOCOMPARE_SPECIAL_HISTOHOUR_CASES /\ to_asset = "USD"
       \/ from_asset = "USD" /\ to_asset \in DOMAIN CRYPTOCOMPARE_SPECIAL_HISTOHOUR_CASES
    THEN LET asset_data == IF to_asset = "USD"
                           THEN CRYPTOCOMPARE_SPECIAL_HISTOHOUR_CASES[from_asset]
                           ELSE CRYPTOCOMPARE_SPECIAL_HISTOHOUR_CASES[to_asset]
         IN IF timestamp <= asset_data.timestamp THEN asset_data.usd_price ELSE ZeroFrac
    ELSE ZeroFrac

\* _check_and_get_special_histohour_price
CheckAndGetSpecialHistohourPrice(from_asset, to_asset, timestamp) ==
    IF \/ from_asset \in DOMAIN CRYPTOCOMPARE_SPECIAL_HISTOHOUR_CASES /\ to_asset = "USD"
       \/ from_asset = "USD" /\ to_asset \in DOMAIN CRYPTOCOMPARE_SPECIAL_HISTOHOUR_CASES
    THEN LET asset_data == IF to_asset = "USD"
                           THEN CRYPTOCOMPARE_SPECIAL_HISTOHOUR_CASES[from_asset]
                           ELSE CRYPTOCOMPARE_SPECIAL_HISTOHOUR_CASES[to_asset]
         IN IF timestamp <= asset_data.timestamp
            THEN IF to_asset = "USD"
                 THEN asset_data.usd_price
                 ELSE FracDiv(IntFrac(1), asset_data.usd_price)
            ELSE ZeroFrac
    ELSE ZeroFrac

\* Asset.is_fiat()
IsFiat(asset) == asset \in {"USD", "EUR"}

\* Lines 786-789
ComparisonToNonUsdFiat(from_asset, to_asset) ==
    \/ IsFiat(to_asset) /\ to_asset # "USD"
    \/ IsFiat(from_asset) /\ from_asset # "USD"

\* What a call, or a price source it asks, hands back: a price or an exception.
PriceOutcome(price) == [what |-> "price", price |-> price]

RaiseOutcome(exc) == [what |-> exc, price |-> ZeroFrac]

NoOutcome == [what |-> "none", price |-> ZeroFrac]

\* PriceHistorian().query_historical_price: a nonzero price, or one of the
\* failures of the resolver contract.
HistorianAnswers ==
    {PriceOutcome(IntFrac(p)) : p \in {1, 2}}
    \cup {RaiseOutcome("NoPriceForGivenTimestamp"), RaiseOutcome("RemoteError")}

\* query_endpoint_pricehistorical(from_asset, to_asset, timestamp) as the
\* fallback sees it.
DailyAnswers(from_asset, to_asset) ==
    {IF outcome.ok THEN PriceOutcome(IntFrac(outcome.out.value)) ELSE RaiseOutcome(outcome.out.what) :
        outcome \in DirectQuery("query_endpoint_pricehistorical", from_asset, to_asset, 1)}

\* The return without the check of lines 798-803.
FinalOutcomeUnchecked(price) == PriceOutcome(price)

\* Lines 798-813
FinalOutcome(price) ==
    IF FracIsZero(price) THEN RaiseOutcome("NoPriceForGivenTimestamp") ELSE PriceOutcome(price)

\* The cache: the series in memory, the listed keys and the files.
CacheContents == [memory |-> price_history, listed |-> price_history_file, files |-> files]

\* The series a cache holds for a key: the one in memory, or the one of a
\* readable file that is listed.
SeriesIn(cache, cache_key) ==
    IF cache.memory[cache_key] # NoSeries THEN cache.memory[cache_key]
    ELSE IF cache_key \in cache.listed /\ cache.files[cache_key].kind = "valid"
    THEN DictHistoryToData(cache.files[cache_key])
    ELSE NoSeries

\* What a call can observe of a cache.
Observable(cache) ==
    [series |-> [k \in CacheKeys |-> SeriesIn(cache, k)], listed |-> cache.listed,
     files |-> cache.files]

NoQuery == [from_asset |-> "none", to_asset |-> "none", timestamp |-> 0,
            historical_data_start |-> 0]

\* The cache of an instance that found no file and priced nothing yet.
EmptyCache ==
    [memory |-> [k \in CacheKeys |-> NoSeries], listed |-> {},
     files |-> [k \in CacheKeys |-> BadFile("absent")]]

NoPrev == [call |-> NoQuery, start |-> Observable(EmptyCache), answers |-> <<>>,
           quotes |-> <<>>, out |-> NoOutcome]

InitResolver ==
    /\ r_pc = "idle"
    /\ r_call = NoQuery
    /\ r_price = ZeroFrac
    /\ r_out = NoOutcome
    /\ r_tried = {}
    /\ r_answers = <<>>
    /\ r_quotes = <<>>
    /\ r_start = EmptyCache
    /\ r_prev = NoPrev
    /\ r_calls = 0

\* Lines 707-723: the override check and, when it gives nothing, the call of
\* get_historical_data up to its cache check.
QueryHistoricalPrice(from_asset, to_asset, timestamp, historical_data_start) ==
    LET price == CheckAndGetSpecialHistohourPrice(from_asset, to_asset, timestamp)
        call == [from_asset |-> from_asset, to_asset |-> to_asset, timestamp |-> timestamp,
                 historical_data_start |-> historical_data_start]
    IN /\ r_call' = call
       /\ r_start' = CacheContents
       /\ r_prev' = IF r_prev.call = call /\ r_prev.start = Observable(CacheContents)
                    THEN r_prev
                    ELSE NoPrev
       /\ r_answers' = <<>>
       /\ r_quotes' = <<>>
       /\ r_price' = price
       /\ r_tried' = {"override"}
       /\ r_calls' = r_calls + 1
       /\ IF ~FracIsZero(price)
          THEN /\ r_pc' = "returned"
               /\ r_out' = PriceOutcome(price)
               /\ UNCHANGED histVars
          ELSE /\ r_pc' = "history"
               /\ r_out' = NoOutcome
               /\ GetHistoricalData(from_asset, to_asset, timestamp, historical_data_start)

\* A request, and after it a request for the same pair at the same or a
\* later timestamp.
QueryHistoricalPriceCall ==
    /\ r_pc = "idle"
    /\ h_pc = "idle"
    /\ r_calls < MaxQueries
    /\ \E pair \in ResolverPairs, timestamp \in Timestamps,
          historical_data_start \in HistoricalDataStarts :
          /\ timestamp <= now_ts
          /\ r_calls > 0 =>
                /\ r_prev.call.from_asset = pair[1]
                /\ r_prev.call.to_asset = pair[2]
                /\ r_prev.call.historical_data_start = historical_data_start
                /\ r_prev.call.timestamp <= timestamp
          /\ QueryHistoricalPrice(pair[1], pair[2], timestamp, historical_data_start)
    /\ UNCHANGED queryVars

\* get_historical_data at work for the call: one page of its backfill, from
\* a well-behaved remote.
ResolverPage ==
    /\ r_pc = "history"
    /\ h_pc = "loop"
    /\ ~SymbolsUnsupported(h_call.key[1], h_call.key[2])
    /\ h_pages < MaxPages
    /\ \E resp \in HonestAnswers(end_date + cryptocompare_hourquerylimit * HOUR, h_now) :
          /\ BackfillPageOn(resp)
          /\ r_answers' = Append(r_answers, resp)
    /\ UNCHANGED <<r_pc, r_call, r_price, r_out, r_tried, r_quotes, r_start, r_prev, r_calls>>
    /\ UNCHANGED queryVars

\* get_historical_data at work for the call: the histohour query that fails
\* at the translation of the symbols.
ResolverUnsupported ==
    /\ r_pc = "history"
    /\ BackfillUnsupported
    /\ UNCHANGED resVars
    /\ UNCHANGED queryVars

\* get_historical_data at work for the call: the end of its backfill.
ResolverStore ==
    /\ r_pc = "history"
    /\ BackfillStore
    /\ UNCHANGED resVars
    /\ UNCHANGED queryVars

\* An exception of get_historical_data leaves the call as it is.
ResolverHistoryRaised ==
    /\ r_pc = "history"
    /\ h_pc = "raised"
    /\ r_pc' = "raised"
    /\ r_out' = RaiseOutcome(h_out)
    /\ UNCHANGED <<r_call, r_price, r_tried, r_answers, r_quotes, r_start, r_prev, r_calls>>
    /\ UNCHANGED <<histVars, queryVars>>

\* Lines 725-758: the direct lookup in the series get_historical_data returned.
ResolverLookup ==
    /\ r_pc = "history"
    /\ DirectLookup
    /\ r_tried' = r_tried \cup {"direct"}
    /\ IF q_outcome' = "IndexError"
       THEN /\ r_pc' = "raised"
            /\ r_out' = RaiseOutcome("IndexError")
            /\ UNCHANGED r_price
       ELSE /\ r_pc' = "fallback"
            /\ r_price' = IntFrac(q_price')
            /\ UNCHANGED r_out
    /\ UNCHANGED <<r_call, r_answers, r_quotes, r_start, r_prev, r_calls>>
    /\ UNCHANGED histVars

\* The call ends with the exception a price source raised.
Propagate(answer, quotes) ==
    /\ r_pc' = "raised"
    /\ r_out' = answer
    /\ r_quotes' = quotes
    /\ UNCHANGED r_price

\* The historian asked twice in a row: the second question is put only when
\* the first was answered with a price.
HistorianTwice ==
    {<<first>> : first \in {a \in HistorianAnswers : a.what # "price"}}
    \cup {<<first, second>> : first \in {a \in HistorianAnswers : a.what = "price"},
                             second \in HistorianAnswers}

Last(s) == s[Len(s)]

\* The bridge taken as soon as one of the assets is not BTC.
UsesBridgeEither(from_asset, to_asset) == from_asset # "BTC" \/ to_asset # "BTC"

\* Line 761
UsesBridge(from_asset, to_asset) == from_asset # "BTC" /\ to_asset # "BTC"

\* Lines 760-784: with no price yet, the BTC bridge when neither asset is BTC,
\* the daily endpoint otherwise.
ResolverFallback ==
    /\ r_pc = "fallback"
    /\ IF ~FracIsZero(r_price)
       THEN /\ r_pc' = "adjust"
            /\ UNCHANGED <<r_price, r_out, r_tried, r_quotes>>
       ELSE IF UsesBridge(r_call.from_asset, r_call.to_asset)
       THEN /\ r_tried' = r_tried \cup {"bridge"}
            /\ \E asked \in HistorianTwice :
                  IF Last(asked).what # "price"
                  THEN Propagate(Last(asked), r_quotes \o asked)
                  ELSE /\ r_pc' = "adjust"
                       /\ r_price' = FracMul(asked[1].price, asked[2].price)
                       /\ r_quotes' = r_quotes \o asked
                       /\ UNCHANGED r_out
       ELSE /\ r_tried' = r_tried \cup {"daily"}
            /\ \E answer \in DailyAnswers(r_call.from_asset, r_call.to_asset) :
                  IF answer.what # "price"
                  THEN Propagate(answer, Append(r_quotes, answer))
                  ELSE /\ r_pc' = "adjust"
                       /\ r_price' = answer.price
                       /\ r_quotes' = Append(r_quotes, answer)
                       /\ UNCHANGED r_out
    /\ UNCHANGED <<r_call, r_answers, r_start, r_prev, r_calls>>
    /\ UNCHANGED <<histVars, queryVars>>

\* Lines 786-796
ResolverAdjust ==
    /\ r_pc = "adjust"
    /\ IF ComparisonToNonUsdFiat(r_call.from_asset, r_call.to_asset)
       THEN /\ r_tried' = r_tried \cup {"adjuster"}
            /\ \E asked \in HistorianTwice :
                  IF Last(asked).what # "price"
                  THEN Propagate(Last(asked), r_quotes \o asked)
                  ELSE /\ r_pc' = "final"
                       /\ r_price' = AdjustToCryptocomparePriceIncosistencies(
                                         r_price, asked[1].price, asked[2].price)
                       /\ r_quotes' = r_quotes \o asked
                       /\ UNCHANGED r_out
       ELSE /\ r_pc' = "final"
            /\ UNCHANGED <<r_price, r_out, r_tried, r_quotes>>
    /\ UNCHANGED <<r_call, r_answers, r_start, r_prev, r_calls>>
    /\ UNCHANGED <<histVars, queryVars>>

\* Lines 798-813
ResolverFinish ==
    /\ r_pc = "final"
    /\ r_out' = FinalOutcome(r_price)
    /\ r_pc' = IF FinalOutcome(r_price).what = "price" THEN "returned" ELSE "raised"
    /\ r_tried' = r_tried \cup {"final"}
    /\ UNCHANGED <<r_call, r_price, r_answers, r_quotes, r_start, r_prev, r_calls>>
    /\ UNCHANGED <<histVars, queryVars>>

\* The call is over: its frame is dropped, what it was given and what it
\* handed back is remembered for the next call.
ResolverReturn ==
    /\ r_pc \in {"returned", "raised"}
    /\ r_prev' = [call |-> r_call, start |-> Observable(r_start), answers |-> r_answers,
                  quotes |-> r_quotes, out |-> r_out]
    /\ r_pc' = "idle"
    /\ r_call' = NoQuery
    /\ r_price' = ZeroFrac
    /\ r_out' = NoOutcome
    /\ r_tried' = {}
    /\ r_answers' = <<>>
    /\ r_quotes' = <<>>
    /\ r_start' = EmptyCache
    /\ UNCHANGED r_calls
    /\ IF h_pc = "idle" THEN UNCHANGED histVars ELSE Return
    /\ ResetQuery

(***************************************************************************)
(* query_historical_price with itself as the price historian               *)
(***************************************************************************)
\* PriceHistorian().query_historical_price is the resolver itself: each call
\* the BTC bridge (lines 767-776) or the adjuster (lines 839-848) makes is a
\* nested call of query_historical_price with the caller's timestamp. The
\* series and the daily quote a call finds are whatever the remote holds.
MaxDepth == 4

RecAssets == {"ETH", "EUR", "USD", "BTC"}

RecTimestamps == {0, HOUR}

\* Where a call goes once it has a price: to the adjuster (lines 786-796)
\* or to the final test.
AfterPrice(from_asset, to_asset) ==
    IF ComparisonToNonUsdFiat(from_asset, to_asset) THEN "adjust1" ELSE "final"

\* The frame of a call that has passed the override check (lines 707-713).
Frame(from_asset, to_asset, timestamp) ==
    LET price == CheckAndGetSpecialHistohourPrice(from_asset, to_asset, timestamp)
    IN [from_asset |-> from_asset, to_asset |-> to_asset, timestamp |-> timestamp,
        pc |-> IF FracIsZero(price) THEN "history" ELSE "return",
        price |-> IF FracIsZero(price) THEN "zero" ELSE "nonzero"]

InitStack == stack = <<>>

Top == stack[Len(stack)]

SetTop(pc, price) ==
    stack' = [stack EXCEPT ![Len(stack)] = [Top EXCEPT !.pc = pc, !.price = price]]

\* An exception leaves every frame: no call on the stack catches it.
Unwind == stack' = <<>>

\* A request of a price.
RecCall ==
    /\ stack = <<>>
    /\ \E from_asset \in RecAssets, to_asset \in RecAssets, timestamp \in RecTimestamps :
          /\ from_asset # to_asset
          /\ stack' = <<Frame(from_asset, to_asset, timestamp)>>

\* Lines 715-758: get_historical_data and the direct lookup give a price,
\* give none, or raise.
RecLookup ==
    /\ stack # <<>>
    /\ Top.pc = "history"
    /\ \/ SetTop(AfterPrice(Top.from_asset, Top.to_asset), "nonzero")
       \/ SetTop(IF UsesBridge(Top.from_asset, Top.to_asset) THEN "bridge1" ELSE "daily",
                 "zero")
       \/ Unwind

\* Lines 777-784: the daily endpoint gives a quote, zero included, or raises.
RecDaily ==
    /\ stack # <<>>
    /\ Top.pc = "daily"
    /\ \/ \E price \in {"zero", "nonzero"} :
             SetTop(AfterPrice(Top.from_asset, Top.to_asset), price)
       \/ Unwind

\* The pair a call asks the historian about at each of its four requests.
HistorianPair(frame) ==
    CASE frame.pc = "bridge1" -> <<frame.from_asset, "BTC">>
      [] frame.pc = "bridge2" -> <<"BTC", frame.to_asset>>
      [] frame.pc = "adjust1" -> <<frame.from_asset, "USD">>
      [] frame.pc = "adjust2" -> <<frame.to_asset, "USD">>

\* PriceHistorian().query_historical_price(...): the nested call.
HistorianCall ==
    /\ stack # <<>>
    /\ Top.pc \in {"bridge1", "bridge2", "adjust1", "adjust2"}
    /\ Len(stack) < MaxDepth
    /\ LET pair == HistorianPair(Top)
       IN stack' = Append([stack EXCEPT ![Len(stack)] = [Top EXCEPT !.pc = "wait_" \o Top.pc]],
                          Frame(pair[1], pair[2], Top.timestamp))

\* Where the caller goes on with the price the nested call returned.
AfterHistorian(frame) ==
    CASE frame.pc = "wait_bridge1" -> "bridge2"
      [] frame.pc = "wait_bridge2" -> AfterPrice(frame.from_asset, frame.to_asset)
      [] frame.pc = "wait_adjust1" -> "adjust2"
      [] frame.pc = "wait_adjust2" -> "final"

\* Lines 798-813, and 713 for the override: a price of zero raises
\* NoPriceForGivenTimestamp, any other price is returned to the caller, whose
\* price is then the product of the bridge or the adjusted price.
RecReturn ==
    /\ stack # <<>>
    /\ Top.pc \in {"final", "return"}
    /\ IF Top.price = "zero"
       THEN Unwind
       ELSE IF Len(stack) = 1
       THEN stack' = <<>>
       ELSE LET caller == stack[Len(stack) - 1]
            IN stack' = [SubSeq(stack, 1, Len(stack) - 1) EXCEPT ![Len(stack) - 1] =
                            [caller EXCEPT !.pc = AfterHistorian(caller),
                                           !.price = "nonzero"]]

(***************************************************************************)
(* Concurrent callers of get_historical_data                               *)
(***************************************************************************)
\* The callers are greenlets of one process: a greenlet runs until it waits
\* for the remote (the request of _api_query, or its gevent.sleep), and the
\* code between two waits runs without interruption. get_historical_data
\* takes no lock (lines 527-649).
NumGreenlets == 2

Greenlets == 1..NumGreenlets

IdleFrame ==
    [pc |-> "idle", call |-> NoCall, now |-> 0, end_date |-> 0, calculated_history |-> <<>>,
     pages |-> 0, out |-> "none"]

InitGreenlets == greenlets = [g \in Greenlets |-> IdleFrame]

\* Lines 545-577: the cache check and, on a miss, the code up to the first
\* histohour request, where the greenlet waits.
GreenletCall(g) ==
    /\ greenlets[g].pc = "idle"
    /\ \E pair \in Pairs, timestamp \in Timestamps, historical_data_start \in HistoricalDataStarts :
          LET cache_key == PairCacheKey(pair[1], pair[2])
              got == GotCachedPrice(price_history, price_history_file, files, cache_key,
                                    timestamp)
          IN /\ timestamp <= now_ts
             /\ price_history' = got.history
             /\ greenlets' = [greenlets EXCEPT ![g] =
                   [pc |-> CASE got.result = "True" -> "returned"
                             [] got.result = "KeyError" -> "raised"
                             [] OTHER -> "loop",
                    call |-> [key |-> cache_key, timestamp |-> timestamp,
                              historical_data_start |-> historical_data_start],
                    now |-> now_ts,
                    end_date |-> IF got.result = "False"
                                 THEN Min(historical_data_start, timestamp)
                                 ELSE 0,
                    calculated_history |-> <<>>,
                    pages |-> 0,
                    out |-> CASE got.result = "True" -> "data"
                              [] got.result = "KeyError" -> "KeyError"
                              [] OTHER -> "none"]]
    /\ UNCHANGED <<price_history_file, files>>

\* Lines 578-649 for the greenlet whose histohour request is answered: the
\* rest of the iteration and either the next request, where it waits again,
\* or the sanity check, the file and the entry of price_history.
GreenletPage(g) ==
    LET frame == greenlets[g] IN
    /\ frame.pc = "loop"
    /\ frame.pages < MaxPages
    /\ \E resp \in HonestAnswers(frame.end_date + cryptocompare_hourquerylimit * HOUR, frame.now) :
          LET step == PageStep(frame.end_date, frame.calculated_history, frame.now, resp)
              after == [frame EXCEPT !.end_date = step.end_date,
                                     !.calculated_history = step.history,
                                     !.pages = frame.pages + 1]
          IN CASE step.status = "continue" ->
                    /\ greenlets' = [greenlets EXCEPT ![g] = after]
                    /\ UNCHANGED cacheVars
               [] step.status = "break" /\ CheckHourlyDataSanity(step.history) ->
                    /\ files' = [files EXCEPT ![frame.call.key] =
                                    WriteHistoryDataInFile(step.history,
                                                           frame.call.historical_data_start,
                                                           frame.now)]
                    /\ price_history_file' = price_history_file \cup {frame.call.key}
                    /\ price_history' = [price_history EXCEPT ![frame.call.key] =
                                            DictHistoryToData(
                                                [data |-> step.history,
                                                 start_time |-> frame.call.historical_data_start,
                                                 end_time |-> step.end_date])]
                    /\ greenlets' = [greenlets EXCEPT ![g] =
                                        [after EXCEPT !.pc = "returned", !.out = "data"]]
               [] OTHER ->
                    /\ greenlets' = [greenlets EXCEPT ![g] =
                                        [after EXCEPT !.pc = "raised",
                                                      !.out = IF step.status = "break"
                                                              THEN "RemoteError"
                                                              ELSE step.status]]
                    /\ UNCHANGED cacheVars

\* The call of the greenlet is over.
GreenletReturn(g) ==
    /\ greenlets[g].pc \in {"returned", "raised"}
    /\ greenlets' = [greenlets EXCEPT ![g] = IdleFrame]
    /\ UNCHANGED cacheVars

(***************************************************************************)
(* Specifications                                                          *)
(***************************************************************************)
Init ==
    /\ InitApi /\ InitSpecial /\ InitHist /\ InitQuery /\ InitAdjust /\ InitResolver
    /\ InitGreenlets /\ InitStack

NextSpecial ==
    \/ EndpointCall /\ UNCHANGED <<nestedVars, apiVars, histVars, queryVars, adjVars, resVars>>
    \/ EndpointDirect /\ UNCHANGED <<nestedVars, apiVars, histVars, queryVars, adjVars, resVars>>
    \/ SpecialCaseLookup /\ UNCHANGED <<nestedVars, apiVars, histVars, queryVars, adjVars, resVars>>
    \/ SpecialCaseLeg1 /\ UNCHANGED <<nestedVars, apiVars, histVars, queryVars, adjVars, resVars>>
    \/ SpecialCaseLeg2 /\ UNCHANGED <<nestedVars, apiVars, histVars, queryVars, adjVars, resVars>>

SpecSpecial == Init /\ [][NextSpecial]_vars

NextApi ==
    \/ ApiCall /\ UNCHANGED <<nestedVars, scVars, histVars, queryVars, adjVars, resVars>>
    \/ ApiIteration /\ UNCHANGED <<nestedVars, scVars, histVars, queryVars, adjVars, resVars>>

SpecApi == Init /\ [][NextApi]_vars

Next ==
    \/ Tick /\ UNCHANGED <<nestedVars, apiVars, scVars, queryVars, adjVars, resVars>>
    \/ GetHistoricalDataCall /\ UNCHANGED <<nestedVars, apiVars, scVars, queryVars, adjVars, resVars>>
    \/ Return /\ ResetQuery /\ UNCHANGED <<nestedVars, apiVars, scVars, adjVars, resVars>>
    \/ BackfillPage /\ UNCHANGED <<nestedVars, apiVars, scVars, queryVars, adjVars, resVars>>
    \/ BackfillStore /\ UNCHANGED <<nestedVars, apiVars, scVars, queryVars, adjVars, resVars>>
    \/ DirectLookup /\ UNCHANGED <<nestedVars, apiVars, scVars, histVars, adjVars, resVars>>

Spec == Init /\ [][Next]_vars

NextAdjust ==
    \/ AdjustCall /\ UNCHANGED <<nestedVars, apiVars, scVars, histVars, queryVars, resVars>>
    \/ AdjustReturn /\ UNCHANGED <<nestedVars, apiVars, scVars, histVars, queryVars, resVars>>

SpecAdjust == Init /\ [][NextAdjust]_vars

NextResolver ==
    \/ r_pc = "idle" /\ Tick /\ UNCHANGED <<nestedVars, apiVars, scVars, queryVars, adjVars, resVars>>
    \/ QueryHistoricalPriceCall /\ UNCHANGED <<nestedVars, apiVars, scVars, adjVars>>
    \/ ResolverPage /\ UNCHANGED <<nestedVars, apiVars, scVars, adjVars>>
    \/ ResolverUnsupported /\ UNCHANGED <<nestedVars, apiVars, scVars, adjVars>>
    \/ ResolverStore /\ UNCHANGED <<nestedVars, apiVars, scVars, adjVars>>
    \/ ResolverHistoryRaised /\ UNCHANGED <<nestedVars, apiVars, scVars, adjVars>>
    \/ ResolverLookup /\ UNCHANGED <<nestedVars, apiVars, scVars, adjVars>>
    \/ ResolverFallback /\ UNCHANGED <<nestedVars, apiVars, scVars, adjVars>>
    \/ ResolverAdjust /\ UNCHANGED <<nestedVars, apiVars, scVars, adjVars>>
    \/ ResolverFinish /\ UNCHANGED <<nestedVars, apiVars, scVars, adjVars>>
    \/ ResolverReturn /\ UNCHANGED <<nestedVars, apiVars, scVars, adjVars>>

SpecResolver == Init /\ [][NextResolver]_vars

\* A client of the class: it calls the query endpoints, or it calls
\* query_historical_price.
NextEntryPoints ==
    \/ r_pc = "idle" /\ r_calls = 0 /\ now_ts = InitialNow /\ NextSpecial
    \/ sc_pc = "idle" /\ NextResolver

SpecEntryPoints == Init /\ [][NextEntryPoints]_vars

UnchangedCallFrames ==
    UNCHANGED <<h_pc, h_call, h_now, end_date, calculated_history, h_pages, h_hit, h_out,
                h_calls, remote_honest>>

NextConcurrent ==
    \/ \E g \in Greenlets :
          /\ GreenletCall(g)
          /\ UNCHANGED now_ts /\ UnchangedCallFrames
          /\ UNCHANGED <<recVars, apiVars, scVars, queryVars, adjVars, resVars>>
    \/ \E g \in Greenlets :
          /\ GreenletPage(g)
          /\ UNCHANGED now_ts /\ UnchangedCallFrames
          /\ UNCHANGED <<recVars, apiVars, scVars, queryVars, adjVars, resVars>>
    \/ \E g \in Greenlets :
          /\ GreenletReturn(g)
          /\ UNCHANGED now_ts /\ UnchangedCallFrames
          /\ UNCHANGED <<recVars, apiVars, scVars, queryVars, adjVars, resVars>>

SpecConcurrent == Init /\ [][NextConcurrent]_vars

NextRecursion ==
    \/ RecCall /\ UNCHANGED <<greenletVars, apiVars, scVars, histVars, queryVars, adjVars,
                             resVars>>
    \/ RecLookup /\ UNCHANGED <<greenletVars, apiVars, scVars, histVars, queryVars, adjVars,
                               resVars>>
    \/ RecDaily /\ UNCHANGED <<greenletVars, apiVars, scVars, histVars, queryVars, adjVars,
                              resVars>>
    \/ HistorianCall /\ UNCHANGED <<greenletVars, apiVars, scVars, histVars, queryVars, adjVars,
                                   resVars>>
    \/ RecReturn /\ UNCHANGED <<greenletVars, apiVars, scVars, histVars, queryVars, adjVars,
                               resVars>>

SpecRecursion == Init /\ [][NextRecursion]_vars

(***************************************************************************)
(* Claims                                                                  *)
(***************************************************************************)
ApiDone == api_pc \in {"returned", "raised"}

\* C5: within one _api_query invocation that is answered with the rate-limit
\* message every time, exactly 10 retries are made (10 sleeps, 11 requests);
\* the invocation ends with a payload or a RemoteError, the loop variable
\* never goes below zero and the AssertionError after the loop is never raised.
C5_ExactlyTenRetries ==
    /\ api_requests <= CRYPTOCOMPARE_QUERY_RETRY_TIMES + 1
    /\ Len(api_sleeps) <= CRYPTOCOMPARE_QUERY_RETRY_TIMES
    /\ tries >= 0
    /\ api_result.what # "AssertionError"
    /\ (api_pc = "raised" => api_result.what = "RemoteError")
    /\ (api_pc = "returned" => api_result.what \in {"Data", "payload"})
    /\ (ApiDone /\ api_all_limited =>
            /\ api_requests = CRYPTOCOMPARE_QUERY_RETRY_TIMES + 1
            /\ Len(api_sleeps) = CRYPTOCOMPARE_QUERY_RETRY_TIMES)
    /\ (api_pc = "loop" /\ api_all_limited /\ api_requests > 0 =>
            Len(api_sleeps) = api_requests /\ api_requests <= CRYPTOCOMPARE_QUERY_RETRY_TIMES)

C5_Witness ==
    /\ ApiDone
    /\ api_all_limited
    /\ api_requests = 11
    /\ Len(api_sleeps) = 10

\* C6 as stated: the waits of successive rate-limit retries strictly decrease.
C6_WaitsDecrease ==
    \A i \in 1..Len(api_sleeps) : \A j \in 1..Len(api_sleeps) :
        i < j => FracLess(api_sleeps[j], api_sleeps[i])

\* C6 amended: the i-th wait is 20/remaining_tries with remaining_tries =
\* 10 - (i - 1), and every later wait is strictly longer than the one before.
C6_WaitsIncrease ==
    /\ \A i \in 1..Len(api_sleeps) :
          FracEq(api_sleeps[i], [num |-> 20, den |-> CRYPTOCOMPARE_QUERY_RETRY_TIMES - (i - 1)])
    /\ \A i \in 1..Len(api_sleeps) : \A j \in 1..Len(api_sleeps) :
          i < j => FracLess(api_sleeps[i], api_sleeps[j])

C6_Witness == Len(api_sleeps) = 10 /\ api_sleeps[1] = [num |-> 20, den |-> 10]

\* C7: an invocation in which every response, the one after the 10th retry
\* included, carries the rate-limit message never returns successfully.
C7_RateLimitedNeverReturned == ~(api_pc = "returned" /\ api_all_limited)

\* C8: for every pair with at least one asset in the special-case mapping,
\* each endpoint resolves through mapping[from] when from is a key and through
\* mapping[to] when only to is a key; the lookup never fails.
C8_IntermediateOfEitherAsset ==
    sc_entered > 0 =>
        /\ sc_out.what # "KeyError"
        /\ sc_inter = IF sc_from \in CRYPTOCOMPARE_SPECIAL_CASES
                      THEN CRYPTOCOMPARE_SPECIAL_CASES_MAPPING[sc_from]
                      ELSE CRYPTOCOMPARE_SPECIAL_CASES_MAPPING[sc_to]

StoredSeries == price_history[h_call.key]

BackfillSucceeded == h_pc = "returned" /\ ~h_hit

\* C1: after a successful backfill the series kept in price_history[key] is
\* hourly at every adjacent pair of entries, whatever the position of the pair.
C1_StoredSeriesHourly ==
    BackfillSucceeded =>
        \A i \in 1..(Len(StoredSeries.data) - 1) :
            StoredSeries.data[i + 1].time - StoredSeries.data[i].time = HOUR

\* C2: after a successful backfill against a well-behaved remote, loading the
\* file the call wrote yields the entries, start_time and end_time of the
\* series the call stored in price_history[key].
C2_CacheRoundTrip ==
    BackfillSucceeded /\ remote_honest =>
        /\ LoadOutcome(files[h_call.key]) = "loaded"
        /\ DictHistoryToData(files[h_call.key]) = StoredSeries

\* C3: for every series of price_history built from the answers of a
\* well-behaved remote: start_time <= data[0].time, end_time >= data[-1].time
\* and end_time - data[-1].time <= 3600.
C3_WindowCoversData ==
    remote_honest =>
        \A k \in CacheKeys :
            price_history[k] # NoSeries =>
                LET series == price_history[k] IN
                /\ Len(series.data) > 0
                /\ series.start_time <= series.data[1].time
                /\ series.end_time >= series.data[Len(series.data)].time
                /\ series.end_time - series.data[Len(series.data)].time <= HOUR

\* The series the cache holds for a key before a call: the one in memory, or
\* the one of a readable file listed in price_history_file.
CachedSeries(cache_key) ==
    IF price_history[cache_key] # NoSeries THEN price_history[cache_key]
    ELSE IF cache_key \in price_history_file /\ files[cache_key].kind = "valid"
    THEN DictHistoryToData(files[cache_key])
    ELSE NoSeries

\* C4: a get_historical_data call returns the stored series with no remote
\* query, no file write and no replacement of price_history[key] exactly when
\* a series for the key exists and start_time <= timestamp < end_time; in
\* every other case it starts a backfill.
C4_HitExactlyWhenCached ==
    [][(h_pc = "idle" /\ h_pc' # "idle") =>
          LET cache_key == h_call'.key
              cached == /\ CachedSeries(cache_key) # NoSeries
                        /\ CachedSeries(cache_key).start_time <= h_call'.timestamp
                        /\ h_call'.timestamp < CachedSeries(cache_key).end_time
          IN IF cached
             THEN /\ h_pc' = "returned"
                  /\ h_hit'
                  /\ h_pages' = 0
                  /\ files' = files
                  /\ price_history'[cache_key] = CachedSeries(cache_key)
             ELSE /\ h_pc' = "loop"
                  /\ ~h_hit'
                  /\ end_date' = Min(h_call'.historical_data_start, h_call'.timestamp)]_vars

\* C9: when the candidate index of the direct lookup equals len(data) (the
\* series being one built from the answers of a well-behaved remote), the
\* resolver steps back by one and prices from the last entry.
C9_StepBackAtLength ==
    (/\ q_pc = "looked_up"
     /\ remote_honest
     /\ q_outcome # "before_start"
     /\ q_candidate = Len(StoredSeries.data)) =>
        /\ q_outcome = "priced"
        /\ q_index = Len(StoredSeries.data) - 1
        /\ q_price = MidPrice(StoredSeries.data[Len(StoredSeries.data)])

\* C10: for a series get_historical_data returned (here: one built from the
\* answers of a well-behaved remote), when the candidate index is greater
\* than len(data) the direct lookup is abandoned for the fallback, and data[]
\* is never read outside 0..len(data)-1.
C10_FallbackBeyondLength ==
    /\ (remote_honest => q_outcome # "IndexError")
    /\ (/\ q_pc = "looked_up"
        /\ remote_honest
        /\ q_outcome # "before_start"
        /\ q_candidate > Len(StoredSeries.data)) => q_outcome = "gave_up"

\* The series is hourly-contiguous: every entry is one hour after the one
\* before it.
HourlyContiguous(data) ==
    \A i \in 1..(Len(data) - 1) : data[i + 1].time - data[i].time = HOUR

InsideSeries(data, timestamp) ==
    /\ Len(data) > 0
    /\ data[1].time <= timestamp
    /\ timestamp <= data[Len(data)].time

BothLegsAnswered ==
    /\ sc_pc = "done"
    /\ sc_entered > 0
    /\ sc_out.what \notin {"KeyError", "RemoteError", "PriceQueryUnsupportedAsset"}

\* The quote a payload of the price endpoint carries, 0 for the empty object.
LegQuote(d) == IF DOMAIN d = {} THEN 0 ELSE d[CHOOSE k \in DOMAIN d : TRUE]

\* C12: once both legs of a special-case pair are answered, the daily price
\* is leg1 * leg2, the value of the current-price result is leg1 * leg2, and
\* the hourly result has, for every index i of leg 1, an entry whose high,
\* low, open and close are the products of the legs' fields at i and whose
\* time, volumes and conversion metadata are those of leg 1 at i.
C12_TwoHopProduct ==
    BothLegsAnswered =>
        /\ sc_out.what = "value"
        /\ CASE sc_method = "query_endpoint_pricehistorical" ->
                   sc_out.value = sc_result1 * sc_result2
             [] sc_method = "query_endpoint_price" ->
                   /\ DOMAIN sc_out.value = {sc_to}
                   /\ sc_out.value[sc_to] = LegQuote(sc_result1) * LegQuote(sc_result2)
             [] OTHER ->
                   /\ Len(sc_out.value.Data) = Len(sc_result1.Data)
                   /\ \A i \in 1..Len(sc_result1.Data) :
                        LET o == sc_out.value.Data[i]
                            e1 == sc_result1.Data[i]
                            e2 == sc_result2.Data[i]
                        IN /\ o.high = e1.high * e2.high
                           /\ o.low = e1.low * e2.low
                           /\ o.open = e1.open * e2.open
                           /\ o.close = e1.close * e2.close
                           /\ o.time = e1.time
                           /\ o.volumefrom = e1.volumefrom
                           /\ o.volumeto = e1.volumeto
                           /\ o.conversionType = e1.conversionType
                           /\ o.conversionSymbol = e1.conversionSymbol

\* C13: the adjuster returns the cross rate from_usd / to_usd exactly when
\* |cross - price| / max(price, cross) >= 10%, the value 10% included, and the
\* price it was given otherwise. In whole numbers, with cross = F / T:
\* 10 * |F - price * T| >= max(price * T, F).
C13_AdjustAtTenPercent ==
    adj_pc = "returned" =>
        LET scaled == adj_price * adj_to_usd
            larger == IF scaled >= adj_from_usd THEN scaled ELSE adj_from_usd
        IN /\ IF 10 * Abs(adj_from_usd - scaled) >= larger
              THEN /\ adj_out.num * adj_to_usd = adj_from_usd * adj_out.den
                   /\ adj_out # IntFrac(adj_price)
              ELSE adj_out = IntFrac(adj_price)
           /\ (adj_price = 100 /\ adj_from_usd = 92 /\ adj_to_usd = 1 => adj_out = IntFrac(100))
           /\ (adj_price = 100 /\ adj_from_usd = 85 /\ adj_to_usd = 1 =>
                   FracEq(adj_out, IntFrac(85)))

\* Price 100 against the cross rate 90: exactly 10%, the cross rate is returned.
C13_Witness ==
    /\ adj_pc = "returned"
    /\ adj_price = 100
    /\ adj_from_usd = 90
    /\ adj_to_usd = 1
    /\ FracEq(adj_out, IntFrac(90))

\* The running call is one the override table answers.
OverrideApplies ==
    /\ r_pc # "idle"
    /\ \/ r_call.from_asset \in DOMAIN CRYPTOCOMPARE_SPECIAL_HISTOHOUR_CASES
          /\ r_call.to_asset = "USD"
          /\ r_call.timestamp <=
                CRYPTOCOMPARE_SPECIAL_HISTOHOUR_CASES[r_call.from_asset].timestamp
       \/ r_call.from_asset = "USD"
          /\ r_call.to_asset \in DOMAIN CRYPTOCOMPARE_SPECIAL_HISTOHOUR_CASES
          /\ r_call.timestamp <=
                CRYPTOCOMPARE_SPECIAL_HISTOHOUR_CASES[r_call.to_asset].timestamp

\* C14: for an asset A of the override table and a timestamp not after the
\* override's, query_historical_price(A, USD) returns usd_price and
\* query_historical_price(USD, A) returns 1 / usd_price; the call asks neither
\* the remote nor the historian, does not enter get_historical_data and leaves
\* price_history, price_history_file and the files as they were.
C14_OverrideShortCircuit ==
    OverrideApplies =>
        /\ r_pc = "returned"
        /\ r_out.what = "price"
        /\ r_call.to_asset = "USD" =>
              r_out.price = CRYPTOCOMPARE_SPECIAL_HISTOHOUR_CASES[r_call.from_asset].usd_price
        /\ r_call.from_asset = "USD" =>
              LET usd_price == CRYPTOCOMPARE_SPECIAL_HISTOHOUR_CASES[r_call.to_asset].usd_price
              IN r_out.price.num * usd_price.num = r_out.price.den * usd_price.den
        /\ r_answers = <<>>
        /\ r_quotes = <<>>
        /\ r_tried = {"override"}
        /\ h_pc = "idle"
        /\ h_pages = 0
        /\ CacheContents = r_start

\* USD priced in COMP at the override's timestamp: 100/20293.
C14_Witness ==
    /\ r_pc = "returned"
    /\ r_call.from_asset = "USD"
    /\ r_call.to_asset = "COMP"
    /\ r_call.timestamp = SpecialHistoHourTimestamp
    /\ r_out = PriceOutcome([num |-> 100, den |-> 20293])

\* C15: query_historical_price never returns a zero price; a call that
\* reaches its end with price zero raises NoPriceForGivenTimestamp, whatever
\* path (override, direct lookup, bridge, daily query, adjustment) it took.
C15_NeverReturnsZero ==
    /\ r_pc = "returned" => r_out.what = "price" /\ ~FracIsZero(r_out.price)
    /\ (r_pc \in {"returned", "raised"} /\ "final" \in r_tried /\ FracIsZero(r_price)) =>
            r_pc = "raised" /\ r_out = RaiseOutcome("NoPriceForGivenTimestamp")

\* The daily endpoint quoted zero and the final check refused it.
C15_Witness ==
    /\ r_pc = "raised"
    /\ r_out.what = "NoPriceForGivenTimestamp"
    /\ "final" \in r_tried
    /\ "daily" \in r_tried
    /\ FracIsZero(r_price)

NoPriceRaised == r_pc = "raised" /\ r_out.what = "NoPriceForGivenTimestamp"

\* C16 as stated: NoPriceForGivenTimestamp leaves a call only after the
\* override table, the direct lookup, the BTC bridge and the daily endpoint
\* were all tried for the request.
C16_AllStrategiesTried ==
    NoPriceRaised => {"override", "direct", "bridge", "daily"} \subseteq r_tried

\* C16 amended: NoPriceForGivenTimestamp leaves a call only after the override
\* table and the direct lookup; of the two fallbacks at most the one of the
\* pair was tried (the bridge when neither asset is BTC, the daily endpoint
\* otherwise, never both); and the call's own final check raises it only
\* when the direct lookup gave no price and that fallback was tried.
C16_PairFallbackTried ==
    NoPriceRaised =>
        /\ {"override", "direct"} \subseteq r_tried
        /\ "bridge" \in r_tried =>
              /\ r_call.from_asset # "BTC" /\ r_call.to_asset # "BTC"
              /\ "daily" \notin r_tried
        /\ "daily" \in r_tried =>
              /\ r_call.from_asset = "BTC" \/ r_call.to_asset = "BTC"
              /\ "bridge" \notin r_tried
        /\ "final" \in r_tried =>
              /\ q_price = 0
              /\ "bridge" \in r_tried \/ "daily" \in r_tried

C16_Witness ==
    /\ NoPriceRaised
    /\ "final" \in r_tried
    /\ "daily" \in r_tried
    /\ r_call.from_asset = "BTC"

\* The running call repeats the one before it: same arguments, same cache,
\* same answers of the remote and of the historian.
RepeatsPrevious ==
    /\ r_pc \in {"returned", "raised"}
    /\ r_prev.call = r_call
    /\ r_prev.start = Observable(r_start)
    /\ r_prev.answers = r_answers
    /\ r_prev.quotes = r_quotes

ServedFromCache == r_pc # "idle" /\ h_pc = "returned" /\ h_hit

\* C17 as stated: a call that repeats the one before it returns the same
\* price, and a call served from the cache leaves price_history,
\* price_history_file and the files unchanged.
C17_SamePriceCacheUntouched ==
    /\ RepeatsPrevious => r_out = r_prev.out
    /\ ServedFromCache => CacheContents = r_start

\* C17 amended: a call that repeats the one before it returns the same price,
\* and a call served from the cache leaves price_history_file and the files
\* unchanged and changes price_history at most by loading the series of the
\* key from its file, so that the next call finds the same series.
C17_SamePriceCacheLoaded ==
    /\ RepeatsPrevious => r_out = r_prev.out
    /\ ServedFromCache =>
          /\ price_history_file = r_start.listed
          /\ files = r_start.files
          /\ \A k \in CacheKeys : price_history[k] = SeriesIn(r_start, k)
                                  \/ price_history[k] = r_start.memory[k]
          /\ Observable(CacheContents) = Observable(r_start)

\* The repetition of a priced call, served from a series that the call
\* before it loaded from the file.
C17_Witness ==
    /\ RepeatsPrevious
    /\ ServedFromCache
    /\ r_out.what = "price"
    /\ r_calls = 2
    /\ files[h_call.key] = EarlierRunFile
    /\ r_start.memory[h_call.key] # NoSeries

\* C18: while a backfill runs, every step that does not end it successfully
\* (a page taken, a page that fails with RemoteError or on a boundary
\* mismatch, the sanity check that fails) leaves price_history,
\* price_history_file and the files as they are: a failed backfill ends with
\* the cache it had after the cache check of its call.
C18_FailedBackfillCachesNothing ==
    [][(h_pc \in {"loop", "assembled"} /\ h_pc' # "returned") =>
          /\ price_history' = price_history
          /\ price_history_file' = price_history_file
          /\ files' = files]_vars

\* A backfill that had assembled entries and failed, with nothing in the
\* cache for its pair.
C18_Witness ==
    /\ h_pc = "raised"
    /\ h_out = "RemoteError"
    /\ Len(calculated_history) > 0
    /\ price_history[h_call.key] = NoSeries
    /\ h_call.key \notin price_history_file
    /\ files[h_call.key].kind = "absent"

\* C19: when a backfill against a well-behaved remote replaces a series that
\* price_history held for the pair, every hour of the previous series is
\* still in the series stored.
C19_RebackfillExtends ==
    [][(/\ h_pc = "assembled"
        /\ h_pc' = "returned"
        /\ remote_honest
        /\ price_history[h_call.key] # NoSeries) =>
          \A i \in 1..Len(price_history[h_call.key].data) :
              \E j \in 1..Len(price_history'[h_call.key].data) :
                  price_history'[h_call.key].data[j].time
                      = price_history[h_call.key].data[i].time]_vars

\* C20: a miss that succeeds against a well-behaved remote returns a series
\* whose first entry is within an hour of min(historical_data_start,
\* timestamp), whose last entry is within an hour of now and in which every
\* entry is one hour after the one before it: no hour twice, none missing.
C20_BackfillCoverage ==
    BackfillSucceeded /\ remote_honest =>
        LET data == StoredSeries.data
            cursor == Min(h_call.historical_data_start, h_call.timestamp)
        IN /\ Len(data) > 0
           /\ Abs(data[1].time - cursor) <= HOUR
           /\ Abs(h_now - data[Len(data)].time) <= HOUR
           /\ HourlyContiguous(data)

\* A backfill of two pages whose second page brought hours after the first.
C20_Witness ==
    /\ BackfillSucceeded
    /\ remote_honest
    /\ h_pages = 2
    /\ Len(StoredSeries.data) > cryptocompare_hourquerylimit + 1

\* The call that starts finds the key listed with a file that does not load.
CallOnBadFile ==
    /\ h_pc = "idle"
    /\ h_pc' # "idle"
    /\ h_call'.key \in price_history_file
    /\ price_history[h_call'.key] = NoSeries
    /\ files[h_call'.key].kind \in {"unreadable", "not_json", "missing_keys"}

\* C22: a get_historical_data call that finds a listed file it cannot read,
\* that is not JSON or that lacks keys takes the miss path: the cache check
\* gives False without raising and the backfill starts.
C22_MalformedFileIsMiss ==
    [][CallOnBadFile => (h_pc' = "loop" /\ ~h_hit' /\ h_out' = "none")]_vars

\* The page taken in this step asked for a window that ends before now.
PageBeforeNow ==
    /\ h_pc = "loop"
    /\ h_pc' # h_pc \/ end_date' # end_date \/ h_pages' # h_pages
    /\ end_date + cryptocompare_hourquerylimit * HOUR < h_now

\* C25: a page whose window ends before now is accepted only when the
\* response's TimeTo is less than 3600 seconds away from the window end
\* asked for, before it or after it; the cursor after an accepted page is
\* that TimeTo.
C25_EndDriftBothWays ==
    [][(PageBeforeNow /\ h_pc' \in {"loop", "assembled"}) =>
          Abs(end_date' - (end_date + cryptocompare_hourquerylimit * HOUR)) < HOUR]_vars

\* C28: when a miss with timestamp < now has succeeded, the cache check of a
\* call with the same arguments gives True and leaves the series just stored,
\* whether timestamp is before or after historical_data_start.
C28_RepeatIsHit ==
    (BackfillSucceeded /\ h_call.timestamp < h_now) =>
        LET again == GotCachedPrice(price_history, price_history_file, files,
                                    h_call.key, h_call.timestamp)
        IN /\ again.result = "True"
           /\ again.history[h_call.key] = StoredSeries

\* C29: every page that the backfill accepts moves the cursor forward.
C29_CursorAdvances ==
    [][(h_pc = "loop" /\ h_pc' \in {"loop", "assembled"}
        /\ (h_pc' # h_pc \/ end_date' # end_date \/ h_pages' # h_pages)) =>
          end_date' > end_date]_vars

\* The last response is one of those that _api_query answers with RemoteError.
LastIsError ==
    \/ api_last.kind \in {"connection_error", "not_json"}
    \/ api_last.Response \notin {"Success", "absent"}

\* C24: _api_query asks again only after a rate-limit response. While the
\* loop runs, every response so far was a rate limit and was followed by one
\* sleep. When it has ended on a response that is not a rate limit, no sleep
\* and no request followed that response; a connection error, a body that is
\* not JSON and a non-success response gave RemoteError, and a success
\* returned 'Data' when the payload has it and the whole payload otherwise.
C24_OnlyRateLimitRetried ==
    /\ (api_pc = "loop" /\ api_requests > 0) =>
          /\ IsRateLimited(api_last)
          /\ Len(api_sleeps) = api_requests
    /\ (ApiDone /\ api_requests > 0) =>
          /\ Len(api_sleeps) = api_requests - 1
          /\ ~IsRateLimited(api_last) =>
                IF LastIsError
                THEN api_result = [what |-> "RemoteError", payload |-> NoAnswer]
                ELSE /\ api_pc = "returned"
                     /\ api_result.payload = api_last
                     /\ api_result.what = (IF api_last.Data = "absent" THEN "payload" ELSE "Data")

C24_Witness ==
    /\ api_pc = "returned"
    /\ api_requests >= 2
    /\ ~IsRateLimited(api_last)
    /\ api_result.what = "Data"

\* The call in progress is a top-level endpoint call on a special-case pair.
OnSpecialPair == sc_pc # "idle" /\ IsSpecialAsset(sc_from, sc_to)

\* The two leg queries of the synthesizer, in the order of the calls.
TwoLegs == <<(<<sc_from, sc_inter>>), (<<sc_inter, sc_to>>)>>

\* C26: a top-level endpoint call on a special-case pair never enters
\* _special_case_handling a second time, and its remote queries are the
\* leg from->intermediate followed by the leg intermediate->to and no other;
\* once it has returned the combined value it has entered exactly once and
\* made exactly these two queries, also when the to asset is a key of the
\* mapping.
C26_NoRecursion ==
    OnSpecialPair =>
        /\ sc_entered <= 1
        /\ sc_pc \in {"leg1", "leg2", "done"} => sc_entered = 1
        /\ Len(sc_queries) <= 2
        /\ \A i \in 1..Len(sc_queries) : sc_queries[i] = TwoLegs[i]
        /\ sc_pc = "leg2" => Len(sc_queries) = 1
        /\ (sc_pc = "done" /\ sc_out.what = "value") => sc_queries = TwoLegs

C26_Witness ==
    /\ OnSpecialPair
    /\ sc_pc = "done"
    /\ sc_out.what = "value"
    /\ sc_to \in CRYPTOCOMPARE_SPECIAL_CASES
    /\ sc_entered = 1
    /\ Len(sc_queries) = 2

\* The direct lookup of the call has been made and the call has moved past
\* the choice of a fallback.
PastFallback == "direct" \in r_tried /\ r_pc \in {"adjust", "final", "returned", "raised"}

\* The direct lookup found no usable entry or a zero midpoint.
LookupYieldsZero == q_outcome \in {"before_start", "gave_up", "IndexError"} \/ q_price = 0

\* C27: past the direct lookup, a lookup that yielded zero has led to the BTC
\* bridge and not to the daily endpoint when neither asset is BTC (the price
\* is the product of the two historian prices), and to exactly one daily
\* query and no bridge when one asset is BTC; a lookup that yielded a price
\* has led to neither.
C27_FallbackRouting ==
    PastFallback =>
        IF LookupYieldsZero
        THEN IF r_call.from_asset # "BTC" /\ r_call.to_asset # "BTC"
             THEN /\ "bridge" \in r_tried
                  /\ "daily" \notin r_tried
                  /\ (r_pc = "adjust" /\ Len(r_quotes) = 2) =>
                        r_price = FracMul(r_quotes[1].price, r_quotes[2].price)
             ELSE /\ "daily" \in r_tried
                  /\ "bridge" \notin r_tried
                  /\ r_pc = "adjust" => Len(r_quotes) = 1
        ELSE /\ "bridge" \notin r_tried
             /\ "daily" \notin r_tried
             /\ r_pc = "adjust" => r_quotes = <<>>

Unsupported(from_asset, to_asset) ==
    from_asset \in UnsupportedAssets \/ to_asset \in UnsupportedAssets

\* The step is a direct query, by an endpoint or by a leg of the
\* synthesizer, of a pair with an asset that has no cryptocompare symbol.
EndpointOnUnsupported ==
    \/ sc_pc = "direct" /\ Unsupported(sc_from, sc_to)
    \/ sc_pc = "leg1" /\ Unsupported(sc_from, sc_inter)
    \/ sc_pc = "leg2" /\ Unsupported(sc_inter, sc_to)

\* C23: no remote request is ever made for a pair with an asset whose symbol
\* translation fails; the endpoint call on such a pair, top-level or as a leg
\* of the synthesizer, ends with PriceQueryUnsupportedAsset without a request;
\* and query_historical_price on such a pair ends with
\* PriceQueryUnsupportedAsset, with no histohour page, no daily query and no
\* historian call behind it.
C23_UnsupportedAssetSurfaced ==
    /\ [](\A i \in 1..Len(sc_queries) : ~Unsupported(sc_queries[i][1], sc_queries[i][2]))
    /\ [][EndpointOnUnsupported =>
             /\ sc_pc' = "done"
             /\ sc_out' = [what |-> "PriceQueryUnsupportedAsset", value |-> 0]
             /\ sc_queries' = sc_queries]_vars
    /\ []((r_pc \in {"raised", "returned"} /\ Unsupported(r_call.from_asset, r_call.to_asset)) =>
             /\ r_pc = "raised"
             /\ r_out.what = "PriceQueryUnsupportedAsset"
             /\ r_answers = <<>>
             /\ r_quotes = <<>>
             /\ h_pages = 0)

\* A leg of the synthesizer has failed at the translation after the other
\* leg was queried.
C23_Witness ==
    /\ sc_pc = "done"
    /\ sc_entered = 1
    /\ Unsupported(sc_inter, sc_to)
    /\ Len(sc_queries) = 1
    /\ sc_out.what = "PriceQueryUnsupportedAsset"

\* The greenlet is between the cache check of a miss and its store.
Backfilling(g) == greenlets[g].pc = "loop"

\* C21: of the greenlets that call get_historical_data, at most one at a time
\* is between its cache check and its store for a given cache key.
C21_SingleWriterPerKey ==
    \A g1 \in Greenlets, g2 \in Greenlets :
        (g1 # g2 /\ Backfilling(g1) /\ Backfilling(g2)) =>
            greenlets[g1].call.key # greenlets[g2].call.key

CallOf(frame) == <<frame.from_asset, frame.to_asset, frame.timestamp>>

\* C30: with the resolver as its own price historian no call is nested in a
\* call with the same (from, to, timestamp), and no bridge leg asks for the
\* bridge again.
C30_NoCallLeadsBackToItself ==
    /\ \A i \in 1..Len(stack), j \in 1..Len(stack) :
          i < j => CallOf(stack[i]) # CallOf(stack[j])
    /\ \A i \in 2..Len(stack) :
          stack[i - 1].pc \in {"wait_bridge1", "wait_bridge2"} =>
              stack[i].pc \notin {"bridge1", "bridge2", "wait_bridge1", "wait_bridge2"}

====
